---------------------------- MODULE Spec2Model ----------------------------
(***************************************************************************)
(* Model of the PXE boot deployment orchestrator.                          *)
(*                                                                         *)
(*   SpecUnpack : one call of ImageWrapper.unpack_image                    *)
(*                (src/deployment/PreparePXEBootFS.py), one step per       *)
(*                external command, for every outcome of every command.    *)
(*   SpecPower  : calls of Deployment.switch_comms_sleeves_power           *)
(*                (src/deployment/Deployment.py) against a router whose    *)
(*                set and print commands may fail or misbehave.            *)
(*   SpecParse  : MikroTikClient.get_poe_ports                             *)
(*                (src/router/MikroTikClient.py) on every short answer of  *)
(*                the router's print command.                              *)
(*   SpecWait   : one call of wait_for_hosts or wait_for_ports             *)
(*                (src/utils/Utilities.py) with a clock that advances      *)
(*                while probes are outstanding.                            *)
(*   SpecDeploy : one call of Deployment.deploy                            *)
(*                (src/deployment/Deployment.py): power off, preparation   *)
(*                of every node, power on, the two boot waits.             *)
(*   SpecDirs   : the directories prepare_pxe_boot_configuration derives   *)
(*                for the nodes of a batch.                                *)
(*   SpecConfigure : calls of ImageWrapper.configure_csl_filesystem on a   *)
(*                tree whose files are short texts or missing.             *)
(*   SpecPrepare : one call of prepare_pxe_boot_configuration: unpack,     *)
(*                configure, TFTP symlink.                                 *)
(*   SpecBatch  : Deployment.deploy from the end of its power-off call,    *)
(*                every node's preparation command by command, then the    *)
(*                power-on call.                                           *)
(*   SpecRace   : two interleaved calls of switch_comms_sleeves_power on   *)
(*                one router.                                              *)
(*   SpecWaitFair : SpecWait with every step eventually taken and a clock  *)
(*                that advances.                                           *)
(*   SpecPoll   : the poll loop of Scheduler.start (src/Scheduller.py).    *)
(***************************************************************************)
EXTENDS Integers, Sequences, FiniteSets, TLC

VARIABLES
    \* ---- unpack_image -------------------------------------------------
    imgExists,      \* self.img_path.exists()
    imgIsFile,      \* self.img_path.is_file()
    upc,            \* position inside unpack_image
    nfsRunning,     \* the NFS server service is running
    loopAttached,   \* the image is associated with a loop device
    loopNameOk,     \* LoopContext.loop names the attached device
    mounted,        \* partitions mounted at the scratch directory, last on top
    dirRemoved,     \* the node's previous directory has been removed
    copied,         \* partitions whose contents were copied
    pend,           \* completion travelling through the __exit__ handlers
    uresult,        \* how unpack_image ended
    cmds,           \* the external commands issued so far, with exit status
    \* ---- switch_comms_sleeves_power -----------------------------------
    poe,            \* the router: port -> actual PoE power state
    nodes,          \* csl_list, as the router_port_link of each node
    reqState,       \* the requested state
    ppc,            \* position inside switch_comms_sleeves_power
    idx,            \* index of the port the set loop is at
    ports,          \* records returned by the last get_poe_ports
    presult,        \* how switch_comms_sleeves_power ended
    rcmds,          \* router commands issued by the current call
    calls,          \* number of calls started
    \* ---- get_poe_ports ------------------------------------------------
    qin,            \* the print command's exit code and output
    qpc,            \* position of the get_poe_ports call
    qret,           \* what get_poe_ports gave back
    \* ---- wait_for_hosts / wait_for_ports ------------------------------
    wkind,          \* "hosts" for wait_for_hosts, "ports" for wait_for_ports
    winput,         \* the host list as it was passed in
    wtimeout,       \* the timeout parameter, in ticks
    whosts,         \* the list 'hosts', mutated by the loop
    wpc,            \* position inside the wait function
    wi,             \* the list iterator's index in the current pass
    wnow,           \* time.time() - start, in ticks
    witer,          \* wnow when the current pass began
    wstart,         \* 'hosts' when the current pass began
    wprobes,        \* hosts probed in the current pass, in order
    seenAt,         \* host -> wnow when it answered a probe, -1 if never
    seenPass,       \* host -> witer of the pass it answered in, -1 if never
    wres,           \* how the wait function ended
    \* ---- deploy -------------------------------------------------------
    dpc,            \* position inside deploy
    dnodes,         \* the batch, as the router_port_link of each node
    dnext,          \* index of the node the preparation loop is at
    dprep,          \* how prepare_pxe_boot_configuration ended, per node
    doff,           \* how switch_comms_sleeves_power(nodes, Off) ended
    don,            \* how switch_comms_sleeves_power(nodes, On) ended
    dwh,            \* how wait_for_hosts ended
    dwp,            \* how wait_for_ports ended
    dres,           \* how deploy ended
    \* ---- the directories of a node ------------------------------------
    nroot,          \* self.pxe_fs_root
    nbatch,         \* the nodes, as their MAC address and nfs_folder_name
    ndirs,          \* the directories derived so far, one record per node
    \* ---- configure_csl_filesystem -------------------------------------
    sshdFile,       \* {root_dir}/etc/ssh/sshd_config
    fstabFile,      \* {root_dir}/etc/fstab
    cmdlineFile,    \* {boot_dir}/cmdline.txt
    hostnameFile,   \* {root_dir}//etc/hostname
    cpc,            \* position inside configure_csl_filesystem
    cruns,          \* number of calls of configure_csl_filesystem started
    clog,           \* the sub-operations run: file before, after, result
    cres,           \* how the last call of configure_csl_filesystem ended
    \* ---- prepare_pxe_boot_configuration -------------------------------
    rpc,            \* position inside prepare_pxe_boot_configuration
    rlog,           \* the steps entered, in order
    rres,           \* how prepare_pxe_boot_configuration ended
    \* ---- two callers of switch_comms_sleeves_power ---------------------
    callers,        \* caller -> its node list, state, position and results
    alone,          \* caller -> the router as it would be had it run alone
    \* ---- Scheduler.start ----------------------------------------------
    spc,            \* position inside the poll loop
    localDate,      \* local_date
    remoteDate,     \* latest_build_date of the last poll
    slog,           \* the deployments started: build, download, result
    polls           \* number of polls made

uvars == <<imgExists, imgIsFile, upc, nfsRunning, loopAttached, loopNameOk,
           mounted, dirRemoved, copied, pend, uresult, cmds>>
pvars == <<poe, nodes, reqState, ppc, idx, ports, presult, rcmds, calls>>
qvars == <<qin, qpc, qret>>
wvars == <<wkind, winput, wtimeout, whosts, wpc, wi, wnow, witer, wstart,
           wprobes, seenAt, seenPass, wres>>
dvars == <<dpc, dnodes, dnext, dprep, doff, don, dwh, dwp, dres>>
nvars == <<nroot, nbatch, ndirs>>
cvars == <<sshdFile, fstabFile, cmdlineFile, hostnameFile, cpc, cruns, clog,
           cres>>
rvars == <<rpc, rlog, rres>>
tvars == <<callers, alone>>
svars == <<spc, localDate, remoteDate, slog, polls>>
vars  == <<uvars, pvars, qvars, wvars, dvars, nvars, cvars, rvars, tvars,
           svars>>

\* What a step of one component leaves alone.
notUnpack == <<pvars, qvars, wvars, dvars,
               nvars, cvars, rvars, tvars, svars>>
notPower  == <<uvars, qvars, wvars, dvars,
               nvars, cvars, rvars, tvars, svars>>
notParse  == <<uvars, pvars, wvars, dvars,
               nvars, cvars, rvars, tvars, svars>>
notWait   == <<uvars, pvars, qvars, dvars,
               nvars, cvars, rvars, tvars, svars>>

(***************************************************************************)
(* ImageWrapper.unpack_image                                               *)
(***************************************************************************)

\* The image has two partitions: p1 = boot, p2 = root.
NumPartitions == 2

\* Exit statuses of an external command: 0, or any non-zero value.
Statuses == {0, 1}

\* run_command merges stderr into stdout.  What `losetup --show -fP` can
\* give back: the device name (status 0); a diagnostic line followed by the
\* device name (status 0, e.g. the size warning); nothing (failure); a
\* diagnostic only (failure).
AttachOutcomes ==
    { [st |-> 0, out |-> "dev"],  [st |-> 0, out |-> "diag"],
      [st |-> 1, out |-> ""],     [st |-> 1, out |-> "diag"] }

Cmd(c, p, s) == [cmd |-> c, part |-> p, st |-> s]

\* The check of is_file() left out.
ImageUsable_exists(ex, isf) == ex

\* `if not self.img_path.exists() or not self.img_path.is_file(): raise`
ImageUsable(ex, isf) == ex /\ isf

\* How a completion ("none" = falling through, "false" = return False,
\* "raise" = an exception) shows to the caller of unpack_image.
ResultOf(p) ==
    CASE p = "none"  -> "true"
      [] p = "false" -> "false"
      [] p = "raise" -> "raised"

\* An __exit__ handler that does not look at the exit status.
ExitCompletion_silent(st, p) == p

\* An __exit__ handler: status 0 lets the completion in flight through, a
\* non-zero status raises RuntimeError, which replaces it.
ExitCompletion(st, p) == IF st = 0 THEN p ELSE "raise"

\* A failed NFS stop that is only logged.
AfterStopFailure_ignored == "rm"

\* NFSServiceContext.__enter__ raised: no __exit__ runs, the call is over.
AfterStopFailure == "done"

\* A failed rm that returns outside the NFSServiceContext.
AfterRmFailure_direct == "done"

\* `return False` after a failed rm leaves through NFSServiceContext only.
AfterRmFailure == "nfs_exit"

\* LoopContext.__enter__ raised: LoopContext.__exit__ does not run.
AfterAttachFailure == "nfs_exit"

\* A failed mount that leaves without LoopContext.__exit__.
AfterMountFailure_skip == "nfs_exit"

\* MountContext.__enter__ raised: MountContext.__exit__ does not run, the
\* enclosing LoopContext.__exit__ does.
AfterMountFailure == "loop_exit"

\* The result of copy_partition ignored.
CopyCompletion_ignored(st) == "none"

\* copy_partition returned False: `return False` inside the MountContext.
CopyCompletion(st) == IF st = 0 THEN "none" ELSE "false"

MountPc(p)  == IF p = 1 THEN "mount1"  ELSE "mount2"
CopyPc(p)   == IF p = 1 THEN "cp1"     ELSE "cp2"
UmountPc(p) == IF p = 1 THEN "umount1" ELSE "umount2"

\* Partition 2 mounted inside the MountContext of partition 1.
AfterCopy_nested(p) == IF p < NumPartitions THEN MountPc(p + 1) ELSE UmountPc(p)

\* After the copy the MountContext is left, by fall-through or by return.
AfterCopy(p) == UmountPc(p)

\* After MountContext.__exit__: the next `with MountContext` when nothing is
\* in flight and a partition is left, else LoopContext.__exit__.
AfterUmount(p, c) ==
    IF c = "none" /\ p < NumPartitions THEN MountPc(p + 1) ELSE "loop_exit"

\* After LoopContext.__exit__ (and the scratch directory's removal).
AfterLoopExit == "nfs_exit"

\* Leaves unpack_image with completion c when the target is "done".
Leave(target, c) ==
    /\ upc' = target
    /\ pend' = c
    /\ uresult' = IF target = "done" THEN ResultOf(c) ELSE uresult

CheckImage ==
    /\ upc = "check"
    /\ IF ImageUsable(imgExists, imgIsFile)
          THEN Leave("nfs_enter", pend)
          ELSE Leave("done", "raise")
    /\ UNCHANGED <<imgExists, imgIsFile, nfsRunning, loopAttached, loopNameOk,
                   mounted, dirRemoved, copied, cmds>>

\* NFSServiceContext.__enter__
NfsEnter ==
    /\ upc = "nfs_enter"
    /\ \E st \in Statuses :
        /\ cmds' = Append(cmds, Cmd("nfs_stop", 0, st))
        /\ nfsRunning' = IF st = 0 THEN FALSE ELSE nfsRunning
        /\ IF st # 0 THEN Leave(AfterStopFailure, "raise")
                     ELSE Leave("rm", pend)
    /\ UNCHANGED <<imgExists, imgIsFile, loopAttached, loopNameOk, mounted,
                   dirRemoved, copied>>

\* `rm -rf {csl_root}`
RemoveOld ==
    /\ upc = "rm"
    /\ \E st \in Statuses :
        /\ cmds' = Append(cmds, Cmd("rm", 0, st))
        /\ dirRemoved' = IF st = 0 THEN TRUE ELSE dirRemoved
        /\ IF st # 0 THEN Leave(AfterRmFailure, "false")
                     ELSE Leave("attach", pend)
    /\ UNCHANGED <<imgExists, imgIsFile, nfsRunning, loopAttached, loopNameOk,
                   mounted, copied>>

\* LoopContext.__enter__
LoopEnter ==
    /\ upc = "attach"
    /\ \E o \in AttachOutcomes :
        /\ cmds' = Append(cmds, Cmd("attach", 0, o.st))
        /\ loopAttached' = (o.st = 0)
        /\ loopNameOk' = (o.out = "dev")
        /\ IF o.out = "" THEN Leave(AfterAttachFailure, "raise")
                         ELSE Leave(MountPc(1), pend)
    /\ UNCHANGED <<imgExists, imgIsFile, nfsRunning, mounted, dirRemoved,
                   copied>>

\* MountContext.__enter__ for partition p.  mount can succeed only on a
\* device that exists: the loop device is attached and self.loop names it.
MountEnter(p) ==
    /\ upc = MountPc(p)
    /\ \E st \in Statuses :
        /\ st = 0 => loopAttached /\ loopNameOk
        /\ cmds' = Append(cmds, Cmd("mount", p, st))
        /\ mounted' = IF st = 0 THEN Append(mounted, p) ELSE mounted
        /\ IF st # 0 THEN Leave(AfterMountFailure, "raise")
                     ELSE Leave(CopyPc(p), pend)
    /\ UNCHANGED <<imgExists, imgIsFile, nfsRunning, loopAttached, loopNameOk,
                   dirRemoved, copied>>

\* copy_partition(tmp_dir, boot_dir | root_dir): Path(dst_dir).mkdir, which
\* raises OSError when the directory cannot be made, then `cp -ar`.
CopyPartition(p) ==
    /\ upc = CopyPc(p)
    /\ \/ /\ Leave(AfterCopy(p), "raise")
          /\ UNCHANGED <<cmds, copied>>
       \/ \E st \in Statuses :
            /\ cmds' = Append(cmds, Cmd("cp", p, st))
            /\ copied' = IF st = 0 THEN copied \cup {p} ELSE copied
            /\ Leave(AfterCopy(p), CopyCompletion(st))
    /\ UNCHANGED <<imgExists, imgIsFile, nfsRunning, loopAttached, loopNameOk,
                   mounted, dirRemoved>>

\* MountContext.__exit__ for partition p.  `umount {mount_point}` removes the
\* mount on top of the scratch directory.
MountExit(p) ==
    /\ upc = UmountPc(p)
    /\ \E st \in Statuses :
        /\ cmds' = Append(cmds, Cmd("umount", p, st))
        /\ st = 0 => mounted # <<>>
        /\ mounted' = IF st = 0 THEN SubSeq(mounted, 1, Len(mounted) - 1)
                                ELSE mounted
        /\ Leave(AfterUmount(p, ExitCompletion(st, pend)),
                 ExitCompletion(st, pend))
    /\ UNCHANGED <<imgExists, imgIsFile, nfsRunning, loopAttached, loopNameOk,
                   dirRemoved, copied>>

\* LoopContext.__exit__.  `losetup -d` can succeed only on the name of an
\* attached device; while a partition of the device is still mounted the
\* kernel only marks the device for automatic detach, so it stays attached.
LoopExit ==
    /\ upc = "loop_exit"
    /\ \E st \in Statuses :
        /\ st = 0 => loopAttached /\ loopNameOk
        /\ cmds' = Append(cmds, Cmd("detach", 0, st))
        /\ loopAttached' = IF st = 0 /\ mounted = <<>> THEN FALSE
                                                       ELSE loopAttached
        /\ Leave(AfterLoopExit, ExitCompletion(st, pend))
    /\ UNCHANGED <<imgExists, imgIsFile, nfsRunning, loopNameOk, mounted,
                   dirRemoved, copied>>

\* NFSServiceContext.__exit__
NfsExit ==
    /\ upc = "nfs_exit"
    /\ \E st \in Statuses :
        /\ cmds' = Append(cmds, Cmd("nfs_start", 0, st))
        /\ nfsRunning' = IF st = 0 THEN TRUE ELSE nfsRunning
        /\ Leave("done", ExitCompletion(st, pend))
    /\ UNCHANGED <<imgExists, imgIsFile, loopAttached, loopNameOk, mounted,
                   dirRemoved, copied>>

(***************************************************************************)
(* MikroTikClient and Deployment.switch_comms_sleeves_power                *)
(***************************************************************************)

\* Router ports ether1 .. ether{NumPorts}.
NumPorts == 2
\* switch_comms_sleeves_power calls in one behaviour.
MaxCalls == 2

RouterPorts == 1..NumPorts

\* POEPort.Power: Off = 'off', On = 'auto-on', ForcedON = 'forced-on'
PowerValues == {"off", "auto-on", "forced-on"}

\* f'ether{node.router_port_link}'
PortName(link) == "ether" \o ToString(link)

\* csl_list: nodes on pairwise distinct router ports, in any order.
NodeLists ==
    UNION { { q \in [1..n -> RouterPorts] :
                \A i, j \in 1..n : i # j => q[i] # q[j] } : n \in 0..NumPorts }

\* What the router does with a set command: applies it (exit 0), reports
\* exit 0 without applying it, or rejects it (non-zero exit).
SetOutcomes == {"applied", "ignored", "rejected"}

\* The text of `interface ethernet poe print without-paging`, as lines of
\* whitespace-separated tokens.  The row of a port is printed whole (8
\* tokens), wrapped after a comment line so that its index column is missing
\* (7 tokens), or with a poe-out value POEPort.Power does not know.
RowShapes == {"row", "wrapped", "unknown"}

HeaderLine ==
    <<"#", "NAME", "POE-OUT", "POE-VOLTAGE", "POE-PRIORITY",
      "POE-LLDP-ENABLED", "POWER-CYCLE-PING-ENABLED", "POWER-CYCLE-INTERVAL">>

RowOf(link, st, shape) ==
    CASE shape = "row" ->
            <<ToString(link - 1), PortName(link), st, "auto", "10", "no", "no", "none">>
      [] shape = "wrapped" ->
            <<PortName(link), st, "auto", "10", "no", "no", "none">>
      [] shape = "unknown" ->
            <<ToString(link - 1), PortName(link), "???", "auto", "10", "no", "no",
              "none">>

\* The print output for router state p when the rows have shapes sh.
PrintOutput(p, sh) ==
    <<HeaderLine>> \o [i \in 1..NumPorts |-> RowOf(i, p[i], sh[i])]

\* from_string that takes any value.
PowerKnown_any(tok) == TRUE

\* POEPort.Power.from_string
PowerKnown(tok) == tok \in PowerValues

\* POEPort.Voltage: Auto = 'auto', Low = 'low', High = 'high'
VoltageValues == {"auto", "low", "high"}

\* POEPort.Voltage.from_string
VoltageKnown(tok) == tok \in VoltageValues

\* POEPort.cast_to_int: int(value) on the tokens used here
IntToken(tok) == tok \in {"10", "20"}

\* POEPort.str_to_bool
BoolToken(tok) ==
    tok \in {"1", "yes", "true", "enabled", "y",
             "0", "n", "no", "none", "false", "disabled"}

\* The row's values are all accepted by the POEPort setters.
RowAccepted(r) ==
    /\ PowerKnown(r[3]) /\ VoltageKnown(r[4])
    /\ IntToken(r[5]) /\ BoolToken(r[6]) /\ BoolToken(r[7])

\* `if ln and COMMENT_PREFIX not in ln`
KeepLine(ln) == ln # <<>> /\ \A i \in 1..Len(ln) : ln[i] # ";;;"

\* Only the '#' caption recognised.
IsCaption_hash(ln) == ln[1] = "#"

\* `line.startswith('#') or line.startswith('Columns')`
IsCaption(ln) == ln[1] \in {"#", "Columns:"}

\* `8 != len(parts)`
RowWidth == 8

IsRow(ln) == KeepLine(ln) /\ ~IsCaption(ln) /\ Len(ln) = RowWidth

\* MikroTikClient.parse_interface_ethernet_poe_cmd: the records of the rows
\* kept, in order; err when a setter raises ValueError on a row's value.
ParsePoe(out) ==
    LET rows == SelectSeq(out, IsRow)
        bad  == \E i \in 1..Len(rows) : ~RowAccepted(rows[i])
    IN  [err   |-> bad,
         ports |-> IF bad THEN <<>>
                   ELSE [i \in 1..Len(rows) |->
                            [name |-> rows[i][2], state |-> rows[i][3],
                             voltage |-> rows[i][4]]]]

\* MikroTikClient.get_poe_ports: [] on a non-zero exit code.
GetPoePorts(code, out) ==
    IF code # 0 THEN [err |-> FALSE, ports |-> <<>>] ELSE ParsePoe(out)

\* ports_names
PortsNames(ns) == { PortName(ns[i]) : i \in 1..Len(ns) }

\* A verification loop that looks at every reported port.
PortsVerified_all(ps, names, st) ==
    ~ \E i \in 1..Len(ps) : ps[i].state # st

\* The verification loop: False at a reported port that is targeted and not
\* in the requested state.
PortsVerified(ps, names, st) ==
    ~ \E i \in 1..Len(ps) : ps[i].name \in names /\ ps[i].state # st

\* The verification without `if not ports: return False`.
VerifyResult_vacuous(r, names, st) ==
    CASE r.err -> "raised"
      [] OTHER -> IF PortsVerified(r.ports, names, st) THEN "true"
                                                       ELSE "false"

\* The result of the call once get_poe_ports has returned r.
VerifyResult(r, names, st) ==
    CASE r.err         -> "raised"
      [] r.ports = <<>> -> "false"
      [] OTHER          -> IF PortsVerified(r.ports, names, st) THEN "true"
                                                                ELSE "false"

\* The set loop left after its first iteration.
SetLoopDone_first(i, n) == i > n \/ i > 1

\* The set loop is over: every port name has been handled.
SetLoopDone(i, n) == i > n

\* The result of set_poe_port_power ignored.
AfterSet_ignored(code) == "set"

\* `if not self.router_client.set_poe_port_power(...): return False`
AfterSet(code) == IF code # 0 THEN "done" ELSE "set"

RCmd(c, port, st, code, out) ==
    [cmd |-> c, port |-> port, state |-> st, code |-> code, out |-> out]

PowerCall ==
    /\ ppc \in {"idle", "done"}
    /\ calls < MaxCalls
    /\ \E ns \in NodeLists, st \in PowerValues :
        /\ nodes' = ns
        /\ reqState' = st
    /\ calls' = calls + 1
    /\ ppc' = "set"
    /\ idx' = 1
    /\ ports' = <<>>
    /\ presult' = "none"
    /\ rcmds' = <<>>
    /\ UNCHANGED poe

\* One iteration of the set loop: set_poe_port_power(ether_port, state)
SetPort ==
    /\ ppc = "set"
    /\ ~SetLoopDone(idx, Len(nodes))
    /\ \E o \in SetOutcomes :
        LET code == IF o = "rejected" THEN 1 ELSE 0 IN
        /\ rcmds' = Append(rcmds,
                           RCmd("set", PortName(nodes[idx]), reqState, code,
                                <<>>))
        /\ poe' = IF o = "applied" THEN [poe EXCEPT ![nodes[idx]] = reqState]
                                   ELSE poe
        /\ ppc' = AfterSet(code)
        /\ presult' = IF AfterSet(code) = "done" THEN "false" ELSE presult
        /\ idx' = idx + 1
    /\ UNCHANGED <<nodes, reqState, ports, calls>>

\* get_poe_ports and the verification of its records
QueryVerify ==
    /\ ppc = "set"
    /\ SetLoopDone(idx, Len(nodes))
    /\ \E code \in Statuses, sh \in [RouterPorts -> RowShapes] :
        LET out == IF code = 0 THEN PrintOutput(poe, sh) ELSE <<>>
            r   == GetPoePorts(code, out)
        IN  /\ code # 0 => sh = [q \in RouterPorts |-> "row"]
            /\ rcmds' = Append(rcmds, RCmd("print", "", "", code, out))
            /\ ports' = r.ports
            /\ presult' = VerifyResult(r, PortsNames(nodes), reqState)
    /\ ppc' = "done"
    /\ UNCHANGED <<poe, nodes, reqState, idx, calls>>

\* The router in any state, no call started; unpack_image is not called.
InitPower ==
    /\ poe \in [RouterPorts -> PowerValues]
    /\ nodes = <<>>
    /\ reqState = "off"
    /\ ppc = "idle"
    /\ idx = 0
    /\ ports = <<>>
    /\ presult = "none"
    /\ rcmds = <<>>
    /\ calls = 0
    /\ imgExists = TRUE
    /\ imgIsFile = TRUE
    /\ upc = "idle"
    /\ nfsRunning = TRUE
    /\ loopAttached = FALSE
    /\ loopNameOk = FALSE
    /\ mounted = <<>>
    /\ dirRemoved = FALSE
    /\ copied = {}
    /\ pend = "none"
    /\ uresult = "none"
    /\ cmds = <<>>
    /\ qin = [code |-> 0, out |-> <<>>]
    /\ qpc = "idle"
    /\ qret = [err |-> FALSE, ports |-> <<>>]
    /\ wkind = "hosts"
    /\ winput = <<>>
    /\ wtimeout = 1
    /\ whosts = <<>>
    /\ wpc = "idle"
    /\ wi = 0
    /\ wnow = 0
    /\ witer = 0
    /\ wstart = <<>>
    /\ wprobes = <<>>
    /\ seenAt = [h \in RouterPorts |-> -1]
    /\ seenPass = [h \in RouterPorts |-> -1]
    /\ wres = "none"
    /\ dpc = "idle"
    /\ dnodes = <<>>
    /\ dnext = 0
    /\ dprep = <<>>
    /\ doff = "none"
    /\ don = "none"
    /\ dwh = "none"
    /\ dwp = "none"
    /\ dres = "none"
    /\ nroot = <<"/", "p">>
    /\ nbatch = <<>>
    /\ ndirs = <<>>
    /\ sshdFile = [exists |-> FALSE, lines |-> <<>>, nl |-> TRUE]
    /\ fstabFile = [exists |-> FALSE, lines |-> <<>>, nl |-> TRUE]
    /\ cmdlineFile = [exists |-> FALSE, lines |-> <<>>, nl |-> TRUE]
    /\ hostnameFile = [exists |-> FALSE, lines |-> <<>>, nl |-> TRUE]
    /\ cpc = "idle"
    /\ cruns = 0
    /\ clog = <<>>
    /\ cres = "none"
    /\ rpc = "idle"
    /\ rlog = <<>>
    /\ rres = "none"
    /\ callers = <<>>
    /\ alone = <<>>
    /\ spc = "idle"
    /\ localDate = 0
    /\ remoteDate = 0
    /\ slog = <<>>
    /\ polls = 0

NextPower ==
    \/ PowerCall /\ UNCHANGED notPower
    \/ SetPort /\ UNCHANGED notPower
    \/ QueryVerify /\ UNCHANGED notPower

SpecPower == InitPower /\ [][NextPower]_vars

\* unpack_image is entered with any image path, the NFS service running or
\* not; switch_comms_sleeves_power is not called.
InitUnpack ==
    /\ imgExists \in BOOLEAN
    /\ imgIsFile \in BOOLEAN
    /\ imgIsFile => imgExists
    /\ upc = "check"
    /\ nfsRunning \in BOOLEAN
    /\ loopAttached = FALSE
    /\ loopNameOk = FALSE
    /\ mounted = <<>>
    /\ dirRemoved = FALSE
    /\ copied = {}
    /\ pend = "none"
    /\ uresult = "none"
    /\ cmds = <<>>
    /\ poe = [q \in RouterPorts |-> "auto-on"]
    /\ nodes = <<>>
    /\ reqState = "off"
    /\ ppc = "idle"
    /\ idx = 0
    /\ ports = <<>>
    /\ presult = "none"
    /\ rcmds = <<>>
    /\ calls = 0
    /\ qin = [code |-> 0, out |-> <<>>]
    /\ qpc = "idle"
    /\ qret = [err |-> FALSE, ports |-> <<>>]
    /\ wkind = "hosts"
    /\ winput = <<>>
    /\ wtimeout = 1
    /\ whosts = <<>>
    /\ wpc = "idle"
    /\ wi = 0
    /\ wnow = 0
    /\ witer = 0
    /\ wstart = <<>>
    /\ wprobes = <<>>
    /\ seenAt = [h \in RouterPorts |-> -1]
    /\ seenPass = [h \in RouterPorts |-> -1]
    /\ wres = "none"
    /\ dpc = "idle"
    /\ dnodes = <<>>
    /\ dnext = 0
    /\ dprep = <<>>
    /\ doff = "none"
    /\ don = "none"
    /\ dwh = "none"
    /\ dwp = "none"
    /\ dres = "none"
    /\ nroot = <<"/", "p">>
    /\ nbatch = <<>>
    /\ ndirs = <<>>
    /\ sshdFile = [exists |-> FALSE, lines |-> <<>>, nl |-> TRUE]
    /\ fstabFile = [exists |-> FALSE, lines |-> <<>>, nl |-> TRUE]
    /\ cmdlineFile = [exists |-> FALSE, lines |-> <<>>, nl |-> TRUE]
    /\ hostnameFile = [exists |-> FALSE, lines |-> <<>>, nl |-> TRUE]
    /\ cpc = "idle"
    /\ cruns = 0
    /\ clog = <<>>
    /\ cres = "none"
    /\ rpc = "idle"
    /\ rlog = <<>>
    /\ rres = "none"
    /\ callers = <<>>
    /\ alone = <<>>
    /\ spc = "idle"
    /\ localDate = 0
    /\ remoteDate = 0
    /\ slog = <<>>
    /\ polls = 0

NextUnpack ==
    \/ CheckImage /\ UNCHANGED notUnpack
    \/ NfsEnter /\ UNCHANGED notUnpack
    \/ RemoveOld /\ UNCHANGED notUnpack
    \/ LoopEnter /\ UNCHANGED notUnpack
    \/ \E p \in 1..NumPartitions : MountEnter(p) /\ UNCHANGED notUnpack
    \/ \E p \in 1..NumPartitions : CopyPartition(p) /\ UNCHANGED notUnpack
    \/ \E p \in 1..NumPartitions : MountExit(p) /\ UNCHANGED notUnpack
    \/ LoopExit /\ UNCHANGED notUnpack
    \/ NfsExit /\ UNCHANGED notUnpack

SpecUnpack == InitUnpack /\ [][NextUnpack]_vars

(***************************************************************************)
(* MikroTikClient.get_poe_ports on its own                                 *)
(***************************************************************************)

\* Lines of an answer given to get_poe_ports in one behaviour.
MaxLines == 2

CommentLine == <<"0", ";;;", "uplink">>
MarkedRow   == <<"0", "ether1", "off", "auto", "10", "no", "no", ";;;">>
ColumnsLine ==
    <<"Columns:", "NAME,", "POE-OUT,", "POE-VOLTAGE,", "POE-PRIORITY,",
      "POE-LLDP-ENABLED,", "POWER-CYCLE-PING-ENABLED,", "POWER-CYCLE-INTERVAL">>
HighRow     == <<"1", "ether2", "forced-on", "high", "20", "yes", "no", "none">>
LongRow     ==
    <<"0", "ether1", "auto-on", "auto", "10", "no", "no", "none", "extra">>
VoltageRow  == <<"2", "ether3", "off", "medium", "10", "no", "no", "none">>
PriorityRow == <<"2", "ether3", "off", "auto", "first", "no", "no", "none">>

\* The lines an answer is made of: blank, comment, a row carrying the
\* comment marker, the two captions, rows, a wrapped row, a row with a
\* column too many, rows with a state, voltage or priority not understood.
AnswerLines ==
    { <<>>, CommentLine, MarkedRow, HeaderLine, ColumnsLine,
      RowOf(1, "off", "row"), HighRow, RowOf(1, "auto-on", "wrapped"),
      LongRow, RowOf(2, "off", "unknown"), VoltageRow, PriorityRow }

Answers == UNION { [1..n -> AnswerLines] : n \in 0..MaxLines }

\* get_poe_ports is called and the print command answers qin.
InitParse ==
    /\ qin \in [code : Statuses, out : Answers]
    /\ qpc = "call"
    /\ qret = [err |-> FALSE, ports |-> <<>>]
    /\ imgExists = TRUE
    /\ imgIsFile = TRUE
    /\ upc = "idle"
    /\ nfsRunning = TRUE
    /\ loopAttached = FALSE
    /\ loopNameOk = FALSE
    /\ mounted = <<>>
    /\ dirRemoved = FALSE
    /\ copied = {}
    /\ pend = "none"
    /\ uresult = "none"
    /\ cmds = <<>>
    /\ poe = [q \in RouterPorts |-> "auto-on"]
    /\ nodes = <<>>
    /\ reqState = "off"
    /\ ppc = "idle"
    /\ idx = 0
    /\ ports = <<>>
    /\ presult = "none"
    /\ rcmds = <<>>
    /\ calls = 0
    /\ wkind = "hosts"
    /\ winput = <<>>
    /\ wtimeout = 1
    /\ whosts = <<>>
    /\ wpc = "idle"
    /\ wi = 0
    /\ wnow = 0
    /\ witer = 0
    /\ wstart = <<>>
    /\ wprobes = <<>>
    /\ seenAt = [h \in RouterPorts |-> -1]
    /\ seenPass = [h \in RouterPorts |-> -1]
    /\ wres = "none"
    /\ dpc = "idle"
    /\ dnodes = <<>>
    /\ dnext = 0
    /\ dprep = <<>>
    /\ doff = "none"
    /\ don = "none"
    /\ dwh = "none"
    /\ dwp = "none"
    /\ dres = "none"
    /\ nroot = <<"/", "p">>
    /\ nbatch = <<>>
    /\ ndirs = <<>>
    /\ sshdFile = [exists |-> FALSE, lines |-> <<>>, nl |-> TRUE]
    /\ fstabFile = [exists |-> FALSE, lines |-> <<>>, nl |-> TRUE]
    /\ cmdlineFile = [exists |-> FALSE, lines |-> <<>>, nl |-> TRUE]
    /\ hostnameFile = [exists |-> FALSE, lines |-> <<>>, nl |-> TRUE]
    /\ cpc = "idle"
    /\ cruns = 0
    /\ clog = <<>>
    /\ cres = "none"
    /\ rpc = "idle"
    /\ rlog = <<>>
    /\ rres = "none"
    /\ callers = <<>>
    /\ alone = <<>>
    /\ spc = "idle"
    /\ localDate = 0
    /\ remoteDate = 0
    /\ slog = <<>>
    /\ polls = 0

\* get_poe_ports returns or raises
QueryPorts ==
    /\ qpc = "call"
    /\ qret' = GetPoePorts(qin.code, qin.out)
    /\ qpc' = "done"
    /\ UNCHANGED qin

NextParse ==
    \/ QueryPorts /\ UNCHANGED notParse

SpecParse == InitParse /\ [][NextParse]_vars

(***************************************************************************)
(* wait_for_hosts and wait_for_ports                                       *)
(***************************************************************************)

\* Largest timeout a call is given, in ticks.
MaxTimeout == 2

\* interval_sec, and the default timeout of one is_port_open probe: a tick.
Interval == 1

\* A host address per node; a call is given distinct addresses.
Hosts == RouterPorts
HostLists == NodeLists

\* No pass begins at or after the deadline and a pass of n probes lasts at
\* most n ticks: the clock stays below MaxTime.
MaxTime == MaxTimeout + NumPorts

WaitKinds == {"hosts", "ports"}

Range(q) == { q[i] : i \in 1..Len(q) }
Min(a, b) == IF a < b THEN a ELSE b
Max(a, b) == IF a > b THEN a ELSE b

Remove_upto(list, h) ==
    LET k == CHOOSE i \in 1..Len(list) :
                 list[i] = h /\ \A j \in 1..(i - 1) : list[j] # h
    IN  SubSeq(list, k + 1, Len(list))
\* list.remove(host): the first occurrence leaves the list
Remove(list, h) ==
    LET k == CHOOSE i \in 1..Len(list) :
                 list[i] = h /\ \A j \in 1..(i - 1) : list[j] # h
    IN  SubSeq(list, 1, k - 1) \o SubSeq(list, k + 1, Len(list))

\* A loop condition that never reads the clock again.
BeforeDeadline_start(timeout, elapsed) == timeout > 0

\* while timeout > (time.time() - start)
BeforeDeadline(timeout, elapsed) == timeout > elapsed

PassDone_short(list) == Len(list) <= 1
\* if 0 == still_unavailable_servers_count: return True
PassDone(list) == Len(list) = 0

\* How long one probe may take in the pass begun at 'began': wait_for_hosts
\* gives each ping interval_sec / len(hosts), the pass fits in one interval;
\* is_port_open waits up to its own timeout for every host.
ProbeTimes(kind, began, now) ==
    IF kind = "hosts"
    THEN { d \in 0..Interval : now + d - began <= Interval }
    ELSE 0..Interval

\* time.sleep(interval_sec - duration) of wait_for_ports
AfterSleep(kind, began, now) ==
    IF kind = "ports" THEN Max(now, began + Interval) ELSE now

\* The loop condition; wait_for_hosts then divides by len(hosts).
WhileCheck ==
    /\ wpc = "while"
    /\ IF BeforeDeadline(wtimeout, wnow)
       THEN IF wkind = "hosts" /\ Len(whosts) = 0
            THEN /\ wres' = "raise"
                 /\ wpc' = "done"
                 /\ UNCHANGED <<wi, witer, wstart, wprobes>>
            ELSE /\ wpc' = "for"
                 /\ wi' = 0
                 /\ witer' = wnow
                 /\ wstart' = whosts
                 /\ wprobes' = <<>>
                 /\ wres' = wres
       ELSE /\ wres' = "false"
            /\ wpc' = "done"
            /\ UNCHANGED <<wi, witer, wstart, wprobes>>
    /\ UNCHANGED <<wkind, winput, wtimeout, whosts, wnow, seenAt, seenPass>>

\* One turn of `for host in hosts`: the iterator hands out the element at
\* its index, the probe takes time and answers or not, an answering host is
\* removed from the list being iterated.
Probe ==
    /\ wpc = "for"
    /\ wi < Len(whosts)
    /\ LET host == whosts[wi + 1] IN
       \E ok \in BOOLEAN, d \in ProbeTimes(wkind, witer, wnow) :
        /\ wnow' = Min(wnow + d, MaxTime)
        /\ wi' = wi + 1
        /\ wprobes' = Append(wprobes, host)
        /\ whosts' = IF ok THEN Remove(whosts, host) ELSE whosts
        /\ seenAt' = IF ok /\ seenAt[host] = -1
                     THEN [seenAt EXCEPT ![host] = wnow'] ELSE seenAt
        /\ seenPass' = IF ok /\ seenPass[host] = -1
                       THEN [seenPass EXCEPT ![host] = witer] ELSE seenPass
    /\ UNCHANGED <<wkind, winput, wtimeout, wpc, witer, wstart, wres>>

\* The iterator is exhausted: return True on an empty list, otherwise
\* wait_for_ports sleeps out the interval and the loop condition is next.
EndPass ==
    /\ wpc = "for"
    /\ wi >= Len(whosts)
    /\ IF PassDone(whosts)
       THEN /\ wres' = "true"
            /\ wpc' = "done"
            /\ wnow' = wnow
       ELSE /\ wres' = wres
            /\ wpc' = "while"
            /\ wnow' = Min(AfterSleep(wkind, witer, wnow), MaxTime)
    /\ UNCHANGED <<wkind, winput, wtimeout, whosts, wi, witer, wstart,
                   wprobes, seenAt, seenPass>>

\* Either function is entered with a list of distinct hosts and a positive
\* timeout; start = time.time().
InitWait ==
    /\ wkind \in WaitKinds
    /\ winput \in HostLists
    /\ wtimeout \in 1..MaxTimeout
    /\ whosts = winput
    /\ wpc = "while"
    /\ wi = 0
    /\ wnow = 0
    /\ witer = 0
    /\ wstart = <<>>
    /\ wprobes = <<>>
    /\ seenAt = [h \in Hosts |-> -1]
    /\ seenPass = [h \in Hosts |-> -1]
    /\ wres = "none"
    /\ imgExists = TRUE
    /\ imgIsFile = TRUE
    /\ upc = "idle"
    /\ nfsRunning = TRUE
    /\ loopAttached = FALSE
    /\ loopNameOk = FALSE
    /\ mounted = <<>>
    /\ dirRemoved = FALSE
    /\ copied = {}
    /\ pend = "none"
    /\ uresult = "none"
    /\ cmds = <<>>
    /\ poe = [q \in RouterPorts |-> "auto-on"]
    /\ nodes = <<>>
    /\ reqState = "off"
    /\ ppc = "idle"
    /\ idx = 0
    /\ ports = <<>>
    /\ presult = "none"
    /\ rcmds = <<>>
    /\ calls = 0
    /\ qin = [code |-> 0, out |-> <<>>]
    /\ qpc = "idle"
    /\ qret = [err |-> FALSE, ports |-> <<>>]
    /\ dpc = "idle"
    /\ dnodes = <<>>
    /\ dnext = 0
    /\ dprep = <<>>
    /\ doff = "none"
    /\ don = "none"
    /\ dwh = "none"
    /\ dwp = "none"
    /\ dres = "none"
    /\ nroot = <<"/", "p">>
    /\ nbatch = <<>>
    /\ ndirs = <<>>
    /\ sshdFile = [exists |-> FALSE, lines |-> <<>>, nl |-> TRUE]
    /\ fstabFile = [exists |-> FALSE, lines |-> <<>>, nl |-> TRUE]
    /\ cmdlineFile = [exists |-> FALSE, lines |-> <<>>, nl |-> TRUE]
    /\ hostnameFile = [exists |-> FALSE, lines |-> <<>>, nl |-> TRUE]
    /\ cpc = "idle"
    /\ cruns = 0
    /\ clog = <<>>
    /\ cres = "none"
    /\ rpc = "idle"
    /\ rlog = <<>>
    /\ rres = "none"
    /\ callers = <<>>
    /\ alone = <<>>
    /\ spc = "idle"
    /\ localDate = 0
    /\ remoteDate = 0
    /\ slog = <<>>
    /\ polls = 0

NextWait ==
    \/ WhileCheck /\ UNCHANGED notWait
    \/ Probe /\ UNCHANGED notWait
    \/ EndPass /\ UNCHANGED notWait

SpecWait == InitWait /\ [][NextWait]_vars

\* A probe during which the clock moves on.
TimedProbe == Probe /\ wnow' > wnow

\* The same call when every statement is eventually executed and the clock
\* advances: probes that return at once cannot keep the clock at the same
\* tick for ever.
SpecWaitFair ==
    /\ InitWait
    /\ [][NextWait]_vars
    /\ WF_wvars(NextWait)
    /\ SF_wvars(TimedProbe)

(***************************************************************************)
(* Deployment.deploy                                                       *)
(***************************************************************************)

\* CSL_WAIT_FOR_BOOT_TIMEOUT, in ticks
BootTimeout == MaxTimeout

\* POEPort.Power.Off and POEPort.Power.On
PowerOff == "off"
PowerOn  == "auto-on"

\* How unpack_image, configure_csl_filesystem and create_tftp_boot_symlink
\* may end: unpack_image as in SpecUnpack, the file edits of the
\* configuration with or without an exception, the symlink command with
\* either exit status.
UnpackResults     == {"true", "false", "raised"}
ConfigureOutcomes == {"ok", "raised"}

\* The last return statement giving True after a symlink that was made.
PrepareResult_ok(u, c, st) ==
    CASE u = "raised" -> "raised"
      [] u = "false"  -> "false"
      [] c = "raised" -> "raised"
      [] OTHER        -> IF st = 0 THEN "true" ELSE "false"
\* prepare_pxe_boot_configuration: an exception of unpack_image or of the
\* configuration passes through; every return statement gives False.
PrepareResult(u, c, st) ==
    CASE u = "raised" -> "raised"
      [] u = "false"  -> "false"
      [] c = "raised" -> "raised"
      [] OTHER        -> "false"

\* `if not self.switch_comms_sleeves_power(...): return False`, for the
\* power-off and the power-on call
AfterOff_ignored(r) == "prep"
AfterOff(r) == IF r = "true" THEN "prep" ELSE "done"
AfterOn(r)  == IF r = "true" THEN "hosts" ELSE "done"

\* What deploy gives back when a power call did not return True.
AbortResult(r) == IF r = "raised" THEN "raised" ELSE "false"

\* `return True` after the waits, whatever they returned
AfterWaits_checked(wh, wp) ==
    IF wh = "true" /\ wp = "true" THEN "true" ELSE "false"
AfterWaits(wh, wp) == "true"

\* switch_comms_sleeves_power(nodes, st) is entered
StartPower(ns, st) ==
    /\ nodes' = ns
    /\ reqState' = st
    /\ calls' = calls + 1
    /\ ppc' = "set"
    /\ idx' = 1
    /\ ports' = <<>>
    /\ presult' = "none"
    /\ rcmds' = <<>>
    /\ UNCHANGED poe

\* One list object handed to both wait functions: the second one is entered
\* with what the first one left of it.
StartWait_shared(kind, list, timeout) ==
    /\ wkind' = kind
    /\ winput' = IF kind = "ports" THEN whosts ELSE list
    /\ wtimeout' = timeout
    /\ whosts' = IF kind = "ports" THEN whosts ELSE list
    /\ wpc' = "while"
    /\ wi' = 0
    /\ wnow' = 0
    /\ witer' = 0
    /\ wstart' = <<>>
    /\ wprobes' = <<>>
    /\ seenAt' = [h \in Hosts |-> -1]
    /\ seenPass' = [h \in Hosts |-> -1]
    /\ wres' = "none"

\* a wait function is entered with a fresh list of the nodes' addresses
StartWait(kind, list, timeout) ==
    /\ wkind' = kind
    /\ winput' = list
    /\ wtimeout' = timeout
    /\ whosts' = list
    /\ wpc' = "while"
    /\ wi' = 0
    /\ wnow' = 0
    /\ witer' = 0
    /\ wstart' = <<>>
    /\ wprobes' = <<>>
    /\ seenAt' = [h \in Hosts |-> -1]
    /\ seenPass' = [h \in Hosts |-> -1]
    /\ wres' = "none"

\* deploy calls switch_comms_sleeves_power(nodes, Off)
CallPowerOff ==
    /\ dpc = "start"
    /\ StartPower(dnodes, PowerOff)
    /\ dpc' = "off"
    /\ UNCHANGED <<dnodes, dnext, dprep, doff, don, dwh, dwp, dres>>

\* a step of the running power call
PowerStep ==
    /\ dpc \in {"off", "on"}
    /\ (SetPort \/ QueryVerify)
    /\ UNCHANGED dvars

\* the power-off call is over
ReturnPowerOff ==
    /\ dpc = "off"
    /\ ppc = "done"
    /\ doff' = presult
    /\ dpc' = AfterOff(presult)
    /\ dnext' = 1
    /\ dres' = IF AfterOff(presult) = "done" THEN AbortResult(presult)
                                             ELSE dres
    /\ UNCHANGED <<dnodes, dprep, don, dwh, dwp>>

\* one turn of `for node in nodes`: the node's preparation, its result
\* dropped, its exception not caught
PrepareNode ==
    /\ dpc = "prep"
    /\ dnext <= Len(dnodes)
    /\ \E u \in UnpackResults, c \in ConfigureOutcomes, st \in Statuses :
        LET r == PrepareResult(u, c, st) IN
        /\ dprep' = Append(dprep, r)
        /\ dpc' = IF r = "raised" THEN "done" ELSE "prep"
        /\ dres' = IF r = "raised" THEN "raised" ELSE dres
    /\ dnext' = dnext + 1
    /\ UNCHANGED <<dnodes, doff, don, dwh, dwp>>

\* the loop is over: deploy calls switch_comms_sleeves_power(nodes, On)
CallPowerOn ==
    /\ dpc = "prep"
    /\ dnext > Len(dnodes)
    /\ StartPower(dnodes, PowerOn)
    /\ dpc' = "on"
    /\ UNCHANGED <<dnodes, dnext, dprep, doff, don, dwh, dwp, dres>>

\* the power-on call is over; on True wait_for_hosts is called
ReturnPowerOn ==
    /\ dpc = "on"
    /\ ppc = "done"
    /\ don' = presult
    /\ dpc' = AfterOn(presult)
    /\ IF AfterOn(presult) = "done"
       THEN /\ dres' = AbortResult(presult)
            /\ UNCHANGED wvars
       ELSE /\ dres' = dres
            /\ StartWait("hosts", dnodes, BootTimeout)
    /\ UNCHANGED <<dnodes, dnext, dprep, doff, dwh, dwp>>

\* a step of the running wait function
WaitStep ==
    /\ dpc \in {"hosts", "ports"}
    /\ (WhileCheck \/ Probe \/ EndPass)
    /\ UNCHANGED dvars

\* wait_for_hosts is over, its value dropped; wait_for_ports is called
ReturnWaitHosts ==
    /\ dpc = "hosts"
    /\ wpc = "done"
    /\ dwh' = wres
    /\ IF wres = "raise"
       THEN /\ dpc' = "done"
            /\ dres' = "raised"
            /\ UNCHANGED wvars
       ELSE /\ dpc' = "ports"
            /\ dres' = dres
            /\ StartWait("ports", dnodes, BootTimeout)
    /\ UNCHANGED <<dnodes, dnext, dprep, doff, don, dwp>>

\* wait_for_ports is over, its value dropped; deploy returns True
ReturnWaitPorts ==
    /\ dpc = "ports"
    /\ wpc = "done"
    /\ dwp' = wres
    /\ dpc' = "done"
    /\ dres' = IF wres = "raise" THEN "raised" ELSE AfterWaits(dwh, wres)
    /\ UNCHANGED <<dnodes, dnext, dprep, doff, don, dwh>>

\* deploy is entered with a batch of nodes on distinct router ports, the
\* router's ports in any state.
InitDeploy ==
    /\ dpc = "start"
    /\ dnodes \in NodeLists
    /\ dnext = 0
    /\ dprep = <<>>
    /\ doff = "none"
    /\ don = "none"
    /\ dwh = "none"
    /\ dwp = "none"
    /\ dres = "none"
    /\ poe \in [RouterPorts -> PowerValues]
    /\ nodes = <<>>
    /\ reqState = "off"
    /\ ppc = "idle"
    /\ idx = 0
    /\ ports = <<>>
    /\ presult = "none"
    /\ rcmds = <<>>
    /\ calls = 0
    /\ imgExists = TRUE
    /\ imgIsFile = TRUE
    /\ upc = "idle"
    /\ nfsRunning = TRUE
    /\ loopAttached = FALSE
    /\ loopNameOk = FALSE
    /\ mounted = <<>>
    /\ dirRemoved = FALSE
    /\ copied = {}
    /\ pend = "none"
    /\ uresult = "none"
    /\ cmds = <<>>
    /\ qin = [code |-> 0, out |-> <<>>]
    /\ qpc = "idle"
    /\ qret = [err |-> FALSE, ports |-> <<>>]
    /\ wkind = "hosts"
    /\ winput = <<>>
    /\ wtimeout = 1
    /\ whosts = <<>>
    /\ wpc = "idle"
    /\ wi = 0
    /\ wnow = 0
    /\ witer = 0
    /\ wstart = <<>>
    /\ wprobes = <<>>
    /\ seenAt = [h \in RouterPorts |-> -1]
    /\ seenPass = [h \in RouterPorts |-> -1]
    /\ wres = "none"
    /\ nroot = <<"/", "p">>
    /\ nbatch = <<>>
    /\ ndirs = <<>>
    /\ sshdFile = [exists |-> FALSE, lines |-> <<>>, nl |-> TRUE]
    /\ fstabFile = [exists |-> FALSE, lines |-> <<>>, nl |-> TRUE]
    /\ cmdlineFile = [exists |-> FALSE, lines |-> <<>>, nl |-> TRUE]
    /\ hostnameFile = [exists |-> FALSE, lines |-> <<>>, nl |-> TRUE]
    /\ cpc = "idle"
    /\ cruns = 0
    /\ clog = <<>>
    /\ cres = "none"
    /\ rpc = "idle"
    /\ rlog = <<>>
    /\ rres = "none"
    /\ callers = <<>>
    /\ alone = <<>>
    /\ spc = "idle"
    /\ localDate = 0
    /\ remoteDate = 0
    /\ slog = <<>>
    /\ polls = 0

NextDeploy ==
    \/ CallPowerOff
        /\ UNCHANGED <<uvars, qvars, wvars, nvars, cvars, rvars, tvars,
           svars>>
    \/ PowerStep
        /\ UNCHANGED <<uvars, qvars, wvars, nvars, cvars, rvars, tvars,
           svars>>
    \/ ReturnPowerOff
        /\ UNCHANGED <<uvars, pvars, qvars, wvars, nvars, cvars, rvars, tvars,
           svars>>
    \/ PrepareNode
        /\ UNCHANGED <<uvars, pvars, qvars, wvars, nvars, cvars, rvars, tvars,
           svars>>
    \/ CallPowerOn
        /\ UNCHANGED <<uvars, qvars, wvars, nvars, cvars, rvars, tvars,
           svars>>
    \/ ReturnPowerOn
        /\ UNCHANGED <<uvars, pvars, qvars, nvars, cvars, rvars, tvars,
           svars>>
    \/ WaitStep
        /\ UNCHANGED <<uvars, pvars, qvars, nvars, cvars, rvars, tvars,
           svars>>
    \/ ReturnWaitHosts
        /\ UNCHANGED <<uvars, pvars, qvars, nvars, cvars, rvars, tvars,
           svars>>
    \/ ReturnWaitPorts
        /\ UNCHANGED <<uvars, pvars, qvars, wvars, nvars, cvars, rvars, tvars,
           svars>>

SpecDeploy == InitDeploy /\ [][NextDeploy]_vars

(***************************************************************************)
(* The directories prepare_pxe_boot_configuration derives for a node       *)
(***************************************************************************)

\* Nodes in a batch.
MaxBatch == 2

\* Strings are sequences of characters.  MAC addresses of two octets, an
\* nfs_folder_name that is absent (None or '', both false in `if`), one of
\* its own, and one that spells the colon-stripped MAC of another node.
MacAddresses == { <<"a", "a", ":", "b", "b">>, <<"a", "b", ":", "a", "b">>,
                  <<"a", "a", ":", "b", "c">> }
FolderNames  == { <<>>, <<"x">>, <<"a", "a", "b", "b">> }
FsRoots      == { <<"/", "p">>, <<"/", "s">> }

CslNodes == [mac : MacAddresses, nfs : FolderNames]
Batches  == UNION { [1..n -> CslNodes] : n \in 0..MaxBatch }

\* str.replace(old, new) for a one-character old
Replace(str, old, new) ==
    LET F[i \in 0..Len(str)] ==
            IF i = 0 THEN <<>>
            ELSE F[i - 1] \o (IF str[i] = old THEN new ELSE <<str[i]>>)
    IN  F[Len(str)]

\* f'{a}/{b}'
JoinPath(a, b) == a \o <<"/">> \o b

\* nfs_dir_name: the override when it is set, else the MAC without colons
NfsDirName(node) ==
    IF node.nfs # <<>> THEN node.nfs ELSE Replace(node.mac, ":", <<>>)

\* One directory for every node, whatever its name.
CslRootFolder_shared(root, name) == JoinPath(root, <<"n">>)
\* csl_root_folder
CslRootFolder(root, name) == JoinPath(root, name)

\* boot_dir, root_dir and csl_tftp_boot_dir of a node; csl_root is the
\* directory unpack_image removes, the parent of boot_dir.
DirsOf(root, node) ==
    LET folder == CslRootFolder(root, NfsDirName(node)) IN
    [ csl_root |-> folder,
      boot     |-> JoinPath(folder, <<"b", "o", "o", "t">>),
      rootfs   |-> JoinPath(folder, <<"r", "o", "o", "t", "f", "s">>),
      tftp     |-> JoinPath(JoinPath(root, <<"t", "f", "t", "p", "b", "o", "o",
                                              "t">>),
                            Replace(node.mac, ":", <<"-">>)) ]

\* The directories of the next node of the batch are derived.
DeriveDirs ==
    /\ Len(ndirs) < Len(nbatch)
    /\ ndirs' = Append(ndirs, DirsOf(nroot, nbatch[Len(ndirs) + 1]))
    /\ UNCHANGED <<nroot, nbatch>>

notDirs == <<uvars, pvars, qvars, wvars, dvars, cvars, rvars, tvars,
            svars>>

\* Any batch under any filesystem root, no directory derived yet.
InitDirs ==
    /\ nroot \in FsRoots
    /\ nbatch \in Batches
    /\ ndirs = <<>>
    /\ imgExists = TRUE
    /\ imgIsFile = TRUE
    /\ upc = "idle"
    /\ nfsRunning = TRUE
    /\ loopAttached = FALSE
    /\ loopNameOk = FALSE
    /\ mounted = <<>>
    /\ dirRemoved = FALSE
    /\ copied = {}
    /\ pend = "none"
    /\ uresult = "none"
    /\ cmds = <<>>
    /\ poe = [q \in RouterPorts |-> "auto-on"]
    /\ nodes = <<>>
    /\ reqState = "off"
    /\ ppc = "idle"
    /\ idx = 0
    /\ ports = <<>>
    /\ presult = "none"
    /\ rcmds = <<>>
    /\ calls = 0
    /\ qin = [code |-> 0, out |-> <<>>]
    /\ qpc = "idle"
    /\ qret = [err |-> FALSE, ports |-> <<>>]
    /\ wkind = "hosts"
    /\ winput = <<>>
    /\ wtimeout = 1
    /\ whosts = <<>>
    /\ wpc = "idle"
    /\ wi = 0
    /\ wnow = 0
    /\ witer = 0
    /\ wstart = <<>>
    /\ wprobes = <<>>
    /\ seenAt = [h \in RouterPorts |-> -1]
    /\ seenPass = [h \in RouterPorts |-> -1]
    /\ wres = "none"
    /\ dpc = "idle"
    /\ dnodes = <<>>
    /\ dnext = 0
    /\ dprep = <<>>
    /\ doff = "none"
    /\ don = "none"
    /\ dwh = "none"
    /\ dwp = "none"
    /\ dres = "none"
    /\ sshdFile = [exists |-> FALSE, lines |-> <<>>, nl |-> TRUE]
    /\ fstabFile = [exists |-> FALSE, lines |-> <<>>, nl |-> TRUE]
    /\ cmdlineFile = [exists |-> FALSE, lines |-> <<>>, nl |-> TRUE]
    /\ hostnameFile = [exists |-> FALSE, lines |-> <<>>, nl |-> TRUE]
    /\ cpc = "idle"
    /\ cruns = 0
    /\ clog = <<>>
    /\ cres = "none"
    /\ rpc = "idle"
    /\ rlog = <<>>
    /\ rres = "none"
    /\ callers = <<>>
    /\ alone = <<>>
    /\ spc = "idle"
    /\ localDate = 0
    /\ remoteDate = 0
    /\ slog = <<>>
    /\ polls = 0

NextDirs ==
    \/ DeriveDirs /\ UNCHANGED notDirs

SpecDirs == InitDirs /\ [][NextDirs]_vars

(***************************************************************************)
(* ImageWrapper.configure_csl_filesystem and its four file rewrites        *)
(***************************************************************************)

\* Lines of a file given to a rewrite, and calls of
\* configure_csl_filesystem on the same files.
MaxFileLines  == 2
MaxConfigures == 2

\* A file is absent, or a list of lines whose last one is terminated by a
\* newline or not; a line is a sequence of characters (a word that takes no
\* part in any comparison is written as one character).
Missing == [exists |-> FALSE, lines |-> <<>>, nl |-> TRUE]
FilesOf(lineSet) ==
    { Missing } \cup
    ( { [exists |-> TRUE, lines |-> ls, nl |-> t] :
          ls \in UNION { [1..n -> lineSet] : n \in 0..MaxFileLines },
          t \in BOOLEAN }
      \ { [exists |-> TRUE, lines |-> <<>>, nl |-> FALSE] } )

\* FileUtilities.read_file_lines: the lines without their newline; a file
\* that cannot be opened raises.
ReadFileLines(file) == [err |-> ~file.exists, lines |-> file.lines]

\* FileUtilities.write_lines_to_file: every line followed by a newline
WriteLinesToFile(lines) == [exists |-> TRUE, lines |-> lines, nl |-> TRUE]

IsSpace(ch) == ch = " "

\* str.split(): the maximal runs of characters that are not whitespace
Split(line) ==
    LET F[i \in 0..Len(line)] ==
            IF i = 0 THEN [done |-> <<>>, cur |-> <<>>]
            ELSE LET prev == F[i - 1] IN
                 IF IsSpace(line[i])
                 THEN [done |-> IF prev.cur = <<>> THEN prev.done
                                ELSE Append(prev.done, prev.cur),
                       cur  |-> <<>>]
                 ELSE [done |-> prev.done, cur |-> Append(prev.cur, line[i])]
        last == F[Len(line)]
    IN  IF last.cur = <<>> THEN last.done ELSE Append(last.done, last.cur)

\* `substr in line`
Contains_prefix(line, substr) ==
    /\ Len(line) >= Len(substr)
    /\ SubSeq(line, 1, Len(substr)) = substr
Contains(line, substr) ==
    \E k \in 0..(Len(line) - Len(substr)) :
        SubSeq(line, k + 1, k + Len(substr)) = substr

\* The arguments of the rewrites: server_ip_address, boot_dir, root_dir and
\* csl_hostname of the node.
ServerIp    == <<"i">>
BootDirArg  == <<"/", "p", "/", "x", "/", "b">>
RootDirArg  == <<"/", "p", "/", "x", "/", "r">>
HostnameArg == <<"h">>

\* f'{ip_address}:{boot_dir} /boot nfs defaults,vers=4.1,tcp 0 0'
NfsBootLine(ip, bootDir) ==
    ip \o <<":">> \o bootDir
       \o <<" ", "/", "b", "o", "o", "t", " ", "n", "f", "s", " ",
            "defaults,vers=4.1,tcp", " ", "0", " ", "0">>

\* `len(params) > 1 and '/' == params[1]`
IsRoot_prefix(params) == Len(params) > 1 /\ params[2][1] = "/"
IsRoot(params) == Len(params) > 1 /\ params[2] = <<"/">>

\* root_idx: the index of the first root line, 0 for the code's -1
RootIdx(lines) ==
    IF \E i \in 1..Len(lines) : IsRoot(Split(lines[i]))
    THEN CHOOSE i \in 1..Len(lines) :
            /\ IsRoot(Split(lines[i]))
            /\ \A j \in 1..(i - 1) : ~IsRoot(Split(lines[j]))
    ELSE 0

\* `lines[root_idx] = ...`
ReplaceLine_append(lines, i, new) == Append(lines, new)
ReplaceLine(lines, i, new) == [lines EXCEPT ![i] = new]

\* modify_fstab_file: what it gives back and what the file is afterwards
FstabRewrite(file, bootDir, ip) ==
    LET rd == ReadFileLines(file) IN
    IF rd.err THEN [ret |-> "raised", file |-> file]
    ELSE IF rd.lines = <<>> \/ RootIdx(rd.lines) = 0
    THEN [ret |-> "false", file |-> file]
    ELSE [ret |-> "true",
          file |-> WriteLinesToFile(
                      ReplaceLine(rd.lines, RootIdx(rd.lines),
                                  NfsBootLine(ip, bootDir)))]

\* The list `replacements` of modify_sshd_config, in its order
PermitRootLogin        == <<"Permit", "RootLogin">>
PasswordAuthentication == <<"Password", "Authentication">>
HostRsaKey             == <<"/etc/ssh/", "ssh_host_rsa_key">>
Replacements ==
    << [substr |-> PermitRootLogin,
        new    |-> PermitRootLogin \o <<" ", "yes">>],
       [substr |-> PasswordAuthentication,
        new    |-> PasswordAuthentication \o <<" ", "yes">>],
       [substr |-> HostRsaKey,
        new    |-> <<"HostKey", " ">> \o HostRsaKey] >>

\* The inner loop over the replacements for one line: every matching entry
\* overwrites lines[idx], the test is always made on the line as read.
SshdLine(line) ==
    LET F[k \in 0..Len(Replacements)] ==
            IF k = 0 THEN line
            ELSE IF Contains(line, Replacements[k].substr)
                 THEN Replacements[k].new ELSE F[k - 1]
    IN  F[Len(Replacements)]

\* modify_sshd_config
SshdRewrite(file) ==
    LET rd == ReadFileLines(file) IN
    IF rd.err THEN [ret |-> "raised", file |-> file]
    ELSE IF rd.lines = <<>> THEN [ret |-> "false", file |-> file]
    ELSE [ret |-> "true",
          file |-> WriteLinesToFile(
                      [i \in 1..Len(rd.lines) |-> SshdLine(rd.lines[i])])]

\* The line modify_cmdline_file writes
CmdLine(rootDir, ip) ==
    <<"rootwait console=tty1 console=ttyS0,115200 pcie_aspm=off selinux=1 enforcing=0 ip=dhcp root=/dev/nfs nfsroot=">>
      \o ip \o <<":">> \o rootDir \o <<",vers=4.1,proto=tcp">>

\* modify_cmdline_file and set_cls_hostname write one line, whatever the
\* file held
CmdlineRewrite(file, rootDir, ip) ==
    [ret |-> "true", file |-> WriteLinesToFile(<<CmdLine(rootDir, ip)>>)]
HostnameRewrite(file, hostname) ==
    [ret |-> "none", file |-> WriteLinesToFile(<<hostname>>)]

\* Where configure_csl_filesystem is after a sub-operation: its result is
\* dropped, its exception ends the call.
AfterSub(ret, next) == IF ret = "raised" THEN "done" ELSE next
CallResult(ret, next) ==
    IF ret = "raised" THEN "raised"
    ELSE IF next = "done" THEN "returned" ELSE "none"

Entry(op, before, r) ==
    [run |-> cruns, op |-> op, ret |-> r.ret, before |-> before,
     after |-> r.file]

\* self.modify_sshd_config(ssh_config_path)
ModifySshd ==
    /\ cpc = "sshd"
    /\ LET r == SshdRewrite(sshdFile) IN
        /\ sshdFile' = r.file
        /\ clog' = Append(clog, Entry("sshd", sshdFile, r))
        /\ cpc' = AfterSub(r.ret, "fstab")
        /\ cres' = CallResult(r.ret, "fstab")
    /\ UNCHANGED <<fstabFile, cmdlineFile, hostnameFile, cruns>>

\* self.modify_fstab_file(boot_dir, fstab_path, server_ip_address)
ModifyFstab ==
    /\ cpc = "fstab"
    /\ LET r == FstabRewrite(fstabFile, BootDirArg, ServerIp) IN
        /\ fstabFile' = r.file
        /\ clog' = Append(clog, Entry("fstab", fstabFile, r))
        /\ cpc' = AfterSub(r.ret, "cmdline")
        /\ cres' = CallResult(r.ret, "cmdline")
    /\ UNCHANGED <<sshdFile, cmdlineFile, hostnameFile, cruns>>

\* self.modify_cmdline_file(root_dir, cmdline_path, server_ip_address)
ModifyCmdline ==
    /\ cpc = "cmdline"
    /\ LET r == CmdlineRewrite(cmdlineFile, RootDirArg, ServerIp) IN
        /\ cmdlineFile' = r.file
        /\ clog' = Append(clog, Entry("cmdline", cmdlineFile, r))
        /\ cpc' = AfterSub(r.ret, "hostname")
        /\ cres' = CallResult(r.ret, "hostname")
    /\ UNCHANGED <<sshdFile, fstabFile, hostnameFile, cruns>>

\* self.set_cls_hostname(hostname_file_path, csl_hostname)
SetHostname ==
    /\ cpc = "hostname"
    /\ LET r == HostnameRewrite(hostnameFile, HostnameArg) IN
        /\ hostnameFile' = r.file
        /\ clog' = Append(clog, Entry("hostname", hostnameFile, r))
        /\ cpc' = AfterSub(r.ret, "done")
        /\ cres' = CallResult(r.ret, "done")
    /\ UNCHANGED <<sshdFile, fstabFile, cmdlineFile, cruns>>

\* configure_csl_filesystem is called once more on the same files, with the
\* same arguments.
ConfigureAgain ==
    /\ cpc = "done"
    /\ cruns < MaxConfigures
    /\ cruns' = cruns + 1
    /\ cpc' = "sshd"
    /\ cres' = "none"
    /\ UNCHANGED <<sshdFile, fstabFile, cmdlineFile, hostnameFile, clog>>

\* Lines of an fstab: a root entry, the installer's comment on it, an entry
\* indented and spaced out, the boot entry, a line of one field, an empty
\* line, the line the rewrite puts in.
FstabLines ==
    { <<"d", " ", "/", " ", "e">>, <<"#", " ", "/", " ", "w">>,
      <<" ", "d", " ", " ", "/">>, <<"d", " ", "/", "b", " ", "v">>,
      <<"/">>, <<>>, NfsBootLine(ServerIp, BootDirArg) }

\* Lines of an sshd_config: each of the three settings, commented out or
\* with another value, a line naming two of them, lines that only look
\* alike, an empty line.
SshdLines ==
    { <<"#">> \o PermitRootLogin \o <<" ", "no">>,
      PasswordAuthentication \o <<" ", "no">>,
      <<"HostKey", " ">> \o HostRsaKey \o <<".pub">>,
      <<"#", " ">> \o PermitRootLogin \o <<" ">> \o PasswordAuthentication,
      <<"Permit", " ", "RootLogin">>,
      <<"HostKey", " ", "/etc/ssh/", "ssh_host_ecdsa_key">>,
      <<>> }

\* A file with nothing to rewrite in it.
PlainFiles == { Missing, WriteLinesToFile(<<<<"o">>>>) }

notConfigure == <<uvars, pvars, qvars, wvars, dvars, nvars, rvars, tvars,
                 svars>>

\* configure_csl_filesystem is called on a tree in which each of the four
\* files is present or not; the sshd_config or the fstab is any short file,
\* the other one a plain one.
InitConfigure ==
    /\ sshdFile \in FilesOf(SshdLines) \cup PlainFiles
    /\ fstabFile \in FilesOf(FstabLines) \cup PlainFiles
    /\ (sshdFile \in PlainFiles \/ fstabFile \in PlainFiles)
    /\ cmdlineFile \in PlainFiles
    /\ hostnameFile \in PlainFiles
    /\ cpc = "sshd"
    /\ cruns = 1
    /\ clog = <<>>
    /\ cres = "none"
    /\ imgExists = TRUE
    /\ imgIsFile = TRUE
    /\ upc = "idle"
    /\ nfsRunning = TRUE
    /\ loopAttached = FALSE
    /\ loopNameOk = FALSE
    /\ mounted = <<>>
    /\ dirRemoved = FALSE
    /\ copied = {}
    /\ pend = "none"
    /\ uresult = "none"
    /\ cmds = <<>>
    /\ poe = [q \in RouterPorts |-> "auto-on"]
    /\ nodes = <<>>
    /\ reqState = "off"
    /\ ppc = "idle"
    /\ idx = 0
    /\ ports = <<>>
    /\ presult = "none"
    /\ rcmds = <<>>
    /\ calls = 0
    /\ qin = [code |-> 0, out |-> <<>>]
    /\ qpc = "idle"
    /\ qret = [err |-> FALSE, ports |-> <<>>]
    /\ wkind = "hosts"
    /\ winput = <<>>
    /\ wtimeout = 1
    /\ whosts = <<>>
    /\ wpc = "idle"
    /\ wi = 0
    /\ wnow = 0
    /\ witer = 0
    /\ wstart = <<>>
    /\ wprobes = <<>>
    /\ seenAt = [h \in RouterPorts |-> -1]
    /\ seenPass = [h \in RouterPorts |-> -1]
    /\ wres = "none"
    /\ dpc = "idle"
    /\ dnodes = <<>>
    /\ dnext = 0
    /\ dprep = <<>>
    /\ doff = "none"
    /\ don = "none"
    /\ dwh = "none"
    /\ dwp = "none"
    /\ dres = "none"
    /\ nroot = <<"/", "p">>
    /\ nbatch = <<>>
    /\ ndirs = <<>>
    /\ rpc = "idle"
    /\ rlog = <<>>
    /\ rres = "none"
    /\ callers = <<>>
    /\ alone = <<>>
    /\ spc = "idle"
    /\ localDate = 0
    /\ remoteDate = 0
    /\ slog = <<>>
    /\ polls = 0

NextConfigure ==
    \/ ModifySshd /\ UNCHANGED notConfigure
    \/ ModifyFstab /\ UNCHANGED notConfigure
    \/ ModifyCmdline /\ UNCHANGED notConfigure
    \/ SetHostname /\ UNCHANGED notConfigure
    \/ ConfigureAgain /\ UNCHANGED notConfigure

SpecConfigure == InitConfigure /\ [][NextConfigure]_vars

(***************************************************************************)
(* ImageWrapper.prepare_pxe_boot_configuration                             *)
(***************************************************************************)

\* What the copied tree may hold of the files the configuration rewrites.
TreeSshd  == { Missing,
               WriteLinesToFile(<<PasswordAuthentication \o <<" ", "no">>>>) }
TreeFstab == { Missing,
               WriteLinesToFile(<<<<"d", " ", "/", " ", "e">>>>),
               WriteLinesToFile(<<<<"d", " ", "/", "b", " ", "v">>>>) }

\* a step of the running unpack_image
UnpackStep ==
    /\ rpc = "unpack"
    /\ \/ CheckImage
       \/ NfsEnter
       \/ RemoveOld
       \/ LoopEnter
       \/ \E p \in 1..NumPartitions : MountEnter(p)
       \/ \E p \in 1..NumPartitions : CopyPartition(p)
       \/ \E p \in 1..NumPartitions : MountExit(p)
       \/ LoopExit
       \/ NfsExit
    /\ UNCHANGED <<rvars, cvars>>

\* unpack_image is over: `if not self.unpack_image(...): return False`, its
\* exception passes through; on True configure_csl_filesystem is entered on
\* the tree that was copied.
ReturnUnpack ==
    /\ rpc = "unpack"
    /\ upc = "done"
    /\ IF uresult = "true"
       THEN /\ rpc' = "configure"
            /\ rlog' = Append(rlog, "configure")
            /\ rres' = rres
            /\ sshdFile' \in TreeSshd
            /\ fstabFile' \in TreeFstab
            /\ cmdlineFile' \in PlainFiles
            /\ hostnameFile' \in PlainFiles
            /\ cpc' = "sshd"
            /\ cruns' = 1
            /\ UNCHANGED <<clog, cres>>
       ELSE /\ rpc' = "done"
            /\ rres' = PrepareResult(uresult, "ok", 0)
            /\ UNCHANGED <<rlog, cvars>>
    /\ UNCHANGED uvars

\* a step of the running configure_csl_filesystem
ConfigureStep ==
    /\ rpc = "configure"
    /\ (ModifySshd \/ ModifyFstab \/ ModifyCmdline \/ SetHostname)
    /\ UNCHANGED <<rvars, uvars>>

\* configure_csl_filesystem is over: its exception passes through,
\* otherwise create_tftp_boot_symlink is next
ReturnConfigure ==
    /\ rpc = "configure"
    /\ cpc = "done"
    /\ IF cres = "raised"
       THEN /\ rpc' = "done"
            /\ rres' = PrepareResult(uresult, "raised", 0)
            /\ rlog' = rlog
       ELSE /\ rpc' = "symlink"
            /\ rres' = rres
            /\ rlog' = Append(rlog, "symlink")
    /\ UNCHANGED <<uvars, cvars>>

\* create_tftp_boot_symlink and the return statement that follows it
CreateSymlink ==
    /\ rpc = "symlink"
    /\ \E st \in Statuses :
        /\ cmds' = Append(cmds, Cmd("ln", 0, st))
        /\ rres' = PrepareResult(uresult, "ok", st)
    /\ rpc' = "done"
    /\ UNCHANGED <<rlog, cvars, imgExists, imgIsFile, upc, nfsRunning,
                   loopAttached, loopNameOk, mounted, dirRemoved, copied,
                   pend, uresult>>

\* prepare_pxe_boot_configuration is called for one node and enters
\* unpack_image, with any image path, the NFS service running or not.
InitPrepare ==
    /\ rpc = "unpack"
    /\ rlog = <<"unpack">>
    /\ rres = "none"
    /\ imgExists \in BOOLEAN
    /\ imgIsFile \in BOOLEAN
    /\ imgIsFile => imgExists
    /\ upc = "check"
    /\ nfsRunning \in BOOLEAN
    /\ loopAttached = FALSE
    /\ loopNameOk = FALSE
    /\ mounted = <<>>
    /\ dirRemoved = FALSE
    /\ copied = {}
    /\ pend = "none"
    /\ uresult = "none"
    /\ cmds = <<>>
    /\ sshdFile = [exists |-> FALSE, lines |-> <<>>, nl |-> TRUE]
    /\ fstabFile = [exists |-> FALSE, lines |-> <<>>, nl |-> TRUE]
    /\ cmdlineFile = [exists |-> FALSE, lines |-> <<>>, nl |-> TRUE]
    /\ hostnameFile = [exists |-> FALSE, lines |-> <<>>, nl |-> TRUE]
    /\ cpc = "idle"
    /\ cruns = 0
    /\ clog = <<>>
    /\ cres = "none"
    /\ poe = [q \in RouterPorts |-> "auto-on"]
    /\ nodes = <<>>
    /\ reqState = "off"
    /\ ppc = "idle"
    /\ idx = 0
    /\ ports = <<>>
    /\ presult = "none"
    /\ rcmds = <<>>
    /\ calls = 0
    /\ qin = [code |-> 0, out |-> <<>>]
    /\ qpc = "idle"
    /\ qret = [err |-> FALSE, ports |-> <<>>]
    /\ wkind = "hosts"
    /\ winput = <<>>
    /\ wtimeout = 1
    /\ whosts = <<>>
    /\ wpc = "idle"
    /\ wi = 0
    /\ wnow = 0
    /\ witer = 0
    /\ wstart = <<>>
    /\ wprobes = <<>>
    /\ seenAt = [h \in RouterPorts |-> -1]
    /\ seenPass = [h \in RouterPorts |-> -1]
    /\ wres = "none"
    /\ dpc = "idle"
    /\ dnodes = <<>>
    /\ dnext = 0
    /\ dprep = <<>>
    /\ doff = "none"
    /\ don = "none"
    /\ dwh = "none"
    /\ dwp = "none"
    /\ dres = "none"
    /\ nroot = <<"/", "p">>
    /\ nbatch = <<>>
    /\ ndirs = <<>>
    /\ callers = <<>>
    /\ alone = <<>>
    /\ spc = "idle"
    /\ localDate = 0
    /\ remoteDate = 0
    /\ slog = <<>>
    /\ polls = 0

NextPrepare ==
    \/ UnpackStep /\ UNCHANGED <<pvars, qvars, wvars, dvars, nvars, tvars,
           svars>>
    \/ ReturnUnpack /\ UNCHANGED <<pvars, qvars, wvars, dvars, nvars, tvars,
           svars>>
    \/ ConfigureStep /\ UNCHANGED <<pvars, qvars, wvars, dvars, nvars, tvars,
           svars>>
    \/ ReturnConfigure /\ UNCHANGED <<pvars, qvars, wvars, dvars, nvars, tvars,
           svars>>
    \/ CreateSymlink /\ UNCHANGED <<pvars, qvars, wvars, dvars, nvars, tvars,
           svars>>

SpecPrepare == InitPrepare /\ [][NextPrepare]_vars

(***************************************************************************)
(* Deployment.deploy from the end of its power-off call: the preparation   *)
(* of every node, command by command, and the power-on call               *)
(***************************************************************************)

IsNfsCmd(c) == c.cmd \in {"nfs_stop", "nfs_start"}

\* one turn of `for node in nodes` begins: prepare_pxe_boot_configuration
\* enters unpack_image for the node's tree.  Of the commands of the earlier
\* turns the log keeps those of the NFS service.
EnterPrepare ==
    /\ dpc = "prep"
    /\ dnext <= Len(dnodes)
    /\ rpc = "idle"
    /\ rpc' = "unpack"
    /\ rlog' = <<"unpack">>
    /\ rres' = "none"
    /\ upc' = "check"
    /\ pend' = "none"
    /\ uresult' = "none"
    /\ dirRemoved' = FALSE
    /\ copied' = {}
    /\ cmds' = SelectSeq(cmds, IsNfsCmd)
    /\ UNCHANGED <<imgExists, imgIsFile, nfsRunning, loopAttached, loopNameOk,
                   mounted, cvars, dvars>>

\* An exception of a node's preparation caught inside the loop.
AfterPrepare_caught(r) == "prep"

\* `result: bool = self.wrapper.prepare_pxe_boot_configuration(node)` with
\* no handler around it: an exception ends deploy.
AfterPrepare(r) == IF r = "raised" THEN "done" ELSE "prep"

\* the turn ends: the result is dropped, an exception leaves deploy
LeavePrepare ==
    /\ dpc = "prep"
    /\ rpc = "done"
    /\ dprep' = Append(dprep, rres)
    /\ dpc' = AfterPrepare(rres)
    /\ dres' = IF AfterPrepare(rres) = "done" THEN "raised" ELSE dres
    /\ dnext' = dnext + 1
    /\ rpc' = "idle"
    /\ sshdFile' = Missing
    /\ fstabFile' = Missing
    /\ cmdlineFile' = Missing
    /\ hostnameFile' = Missing
    /\ cpc' = "idle"
    /\ cruns' = 0
    /\ clog' = <<>>
    /\ cres' = "none"
    /\ UNCHANGED <<rlog, rres, uvars, dnodes, doff, don, dwh, dwp>>

\* deploy has a power-off call that returned True behind it and is about to
\* prepare a batch of nodes on distinct router ports; the NFS service is
\* running or not, the image path is any.
InitBatch ==
    /\ dpc = "prep"
    /\ dnodes \in NodeLists
    /\ dnext = 1
    /\ dprep = <<>>
    /\ doff = "true"
    /\ don = "none"
    /\ dwh = "none"
    /\ dwp = "none"
    /\ dres = "none"
    /\ poe = [q \in RouterPorts |-> PowerOff]
    /\ imgExists \in BOOLEAN
    /\ imgIsFile \in BOOLEAN
    /\ imgIsFile => imgExists
    /\ nfsRunning \in BOOLEAN
    /\ nodes = <<>>
    /\ reqState = "off"
    /\ ppc = "idle"
    /\ idx = 0
    /\ ports = <<>>
    /\ presult = "none"
    /\ rcmds = <<>>
    /\ calls = 0
    /\ upc = "idle"
    /\ loopAttached = FALSE
    /\ loopNameOk = FALSE
    /\ mounted = <<>>
    /\ dirRemoved = FALSE
    /\ copied = {}
    /\ pend = "none"
    /\ uresult = "none"
    /\ cmds = <<>>
    /\ qin = [code |-> 0, out |-> <<>>]
    /\ qpc = "idle"
    /\ qret = [err |-> FALSE, ports |-> <<>>]
    /\ wkind = "hosts"
    /\ winput = <<>>
    /\ wtimeout = 1
    /\ whosts = <<>>
    /\ wpc = "idle"
    /\ wi = 0
    /\ wnow = 0
    /\ witer = 0
    /\ wstart = <<>>
    /\ wprobes = <<>>
    /\ seenAt = [h \in RouterPorts |-> -1]
    /\ seenPass = [h \in RouterPorts |-> -1]
    /\ wres = "none"
    /\ nroot = <<"/", "p">>
    /\ nbatch = <<>>
    /\ ndirs = <<>>
    /\ sshdFile = [exists |-> FALSE, lines |-> <<>>, nl |-> TRUE]
    /\ fstabFile = [exists |-> FALSE, lines |-> <<>>, nl |-> TRUE]
    /\ cmdlineFile = [exists |-> FALSE, lines |-> <<>>, nl |-> TRUE]
    /\ hostnameFile = [exists |-> FALSE, lines |-> <<>>, nl |-> TRUE]
    /\ cpc = "idle"
    /\ cruns = 0
    /\ clog = <<>>
    /\ cres = "none"
    /\ rpc = "idle"
    /\ rlog = <<>>
    /\ rres = "none"
    /\ callers = <<>>
    /\ alone = <<>>
    /\ spc = "idle"
    /\ localDate = 0
    /\ remoteDate = 0
    /\ slog = <<>>
    /\ polls = 0

NextBatch ==
    \/ EnterPrepare /\ UNCHANGED <<pvars, qvars, wvars, nvars, tvars,
           svars>>
    \/ UnpackStep /\ UNCHANGED <<pvars, qvars, wvars, dvars, nvars, tvars,
           svars>>
    \/ ReturnUnpack /\ UNCHANGED <<pvars, qvars, wvars, dvars, nvars, tvars,
           svars>>
    \/ ConfigureStep /\ UNCHANGED <<pvars, qvars, wvars, dvars, nvars, tvars,
           svars>>
    \/ ReturnConfigure /\ UNCHANGED <<pvars, qvars, wvars, dvars, nvars, tvars,
           svars>>
    \/ CreateSymlink /\ UNCHANGED <<pvars, qvars, wvars, dvars, nvars, tvars,
           svars>>
    \/ LeavePrepare /\ UNCHANGED <<pvars, qvars, wvars, nvars, tvars,
           svars>>
    \/ CallPowerOn /\ UNCHANGED <<uvars, qvars, wvars, nvars, cvars, rvars, tvars,
           svars>>
    \/ PowerStep /\ UNCHANGED <<uvars, qvars, wvars, nvars, cvars, rvars, tvars,
           svars>>
    \/ ReturnPowerOn /\ UNCHANGED <<uvars, pvars, qvars, nvars, cvars, rvars, tvars,
           svars>>

SpecBatch == InitBatch /\ [][NextBatch]_vars

(***************************************************************************)
(* Two callers of switch_comms_sleeves_power on the same router            *)
(***************************************************************************)

Callers == {1, 2}

\* The states deploy asks for.
RequestedStates == {PowerOff, PowerOn}

\* A caller that has entered switch_comms_sleeves_power(ns, st).  res is how
\* its call ends, ares how the same call ends on the router `alone` keeps
\* for it: the router that only this caller's commands have reached.
Entered2(ns, st) ==
    [nodes |-> ns, state |-> st, pc |-> "set", idx |-> 1,
     res |-> "none", ares |-> "none"]

\* One iteration of caller c's set loop; the router answers the command the
\* same way on both routers.
CallerSet(c) ==
    LET me == callers[c] IN
    /\ me.pc = "set"
    /\ ~SetLoopDone(me.idx, Len(me.nodes))
    /\ \E o \in SetOutcomes :
        LET code == IF o = "rejected" THEN 1 ELSE 0
            port == me.nodes[me.idx]
            out  == IF AfterSet(code) = "done" THEN "false" ELSE me.res
            aout == IF AfterSet(code) = "done" THEN "false" ELSE me.ares
        IN  /\ poe' = IF o = "applied" THEN [poe EXCEPT ![port] = me.state]
                                       ELSE poe
            /\ alone' = IF o = "applied"
                           THEN [alone EXCEPT ![c][port] = me.state]
                           ELSE alone
            /\ callers' = [callers EXCEPT ![c] =
                               [me EXCEPT !.pc = AfterSet(code),
                                          !.idx = me.idx + 1,
                                          !.res = out, !.ares = aout]]
    /\ UNCHANGED <<nodes, reqState, ppc, idx, ports, presult, rcmds, calls>>

\* Caller c's get_poe_ports and verification; the print command exits with
\* the same code and prints rows of the same shapes on both routers.
CallerQuery(c) ==
    LET me == callers[c] IN
    /\ me.pc = "set"
    /\ SetLoopDone(me.idx, Len(me.nodes))
    /\ \E code \in Statuses, sh \in [RouterPorts -> RowShapes] :
        LET r  == GetPoePorts(code, IF code = 0 THEN PrintOutput(poe, sh)
                                                ELSE <<>>)
            ar == GetPoePorts(code, IF code = 0 THEN PrintOutput(alone[c], sh)
                                                ELSE <<>>)
            names == PortsNames(me.nodes)
        IN  /\ code # 0 => sh = [q \in RouterPorts |-> "row"]
            /\ callers' = [callers EXCEPT ![c] =
                               [me EXCEPT !.pc = "done",
                                          !.res = VerifyResult(r, names, me.state),
                                          !.ares = VerifyResult(ar, names, me.state)]]
    /\ UNCHANGED <<pvars, alone>>

\* The node lists of the callers: ports in ascending order (the order of a
\* caller's own ports makes no difference to the other caller).
CallerLists ==
    { q \in NodeLists : \A i, j \in 1..Len(q) : i < j => q[i] < q[j] }

\* Both callers have entered their call, each with any node list and either
\* state; every port of the router is on or off.  The callers being
\* interchangeable, of two calls for different states the first is the one
\* that powers off.
InitRace ==
    /\ poe \in [RouterPorts -> RequestedStates]
    /\ callers \in [Callers -> { Entered2(ns, st) :
                                   ns \in CallerLists, st \in RequestedStates }]
    /\ callers[1].state = PowerOff \/ callers[2].state = PowerOn
    /\ alone = [c \in Callers |-> poe]
    /\ nodes = <<>>
    /\ reqState = "off"
    /\ ppc = "idle"
    /\ idx = 0
    /\ ports = <<>>
    /\ presult = "none"
    /\ rcmds = <<>>
    /\ calls = 0
    /\ imgExists = TRUE
    /\ imgIsFile = TRUE
    /\ upc = "idle"
    /\ nfsRunning = TRUE
    /\ loopAttached = FALSE
    /\ loopNameOk = FALSE
    /\ mounted = <<>>
    /\ dirRemoved = FALSE
    /\ copied = {}
    /\ pend = "none"
    /\ uresult = "none"
    /\ cmds = <<>>
    /\ qin = [code |-> 0, out |-> <<>>]
    /\ qpc = "idle"
    /\ qret = [err |-> FALSE, ports |-> <<>>]
    /\ wkind = "hosts"
    /\ winput = <<>>
    /\ wtimeout = 1
    /\ whosts = <<>>
    /\ wpc = "idle"
    /\ wi = 0
    /\ wnow = 0
    /\ witer = 0
    /\ wstart = <<>>
    /\ wprobes = <<>>
    /\ seenAt = [h \in RouterPorts |-> -1]
    /\ seenPass = [h \in RouterPorts |-> -1]
    /\ wres = "none"
    /\ dpc = "idle"
    /\ dnodes = <<>>
    /\ dnext = 0
    /\ dprep = <<>>
    /\ doff = "none"
    /\ don = "none"
    /\ dwh = "none"
    /\ dwp = "none"
    /\ dres = "none"
    /\ nroot = <<"/", "p">>
    /\ nbatch = <<>>
    /\ ndirs = <<>>
    /\ sshdFile = [exists |-> FALSE, lines |-> <<>>, nl |-> TRUE]
    /\ fstabFile = [exists |-> FALSE, lines |-> <<>>, nl |-> TRUE]
    /\ cmdlineFile = [exists |-> FALSE, lines |-> <<>>, nl |-> TRUE]
    /\ hostnameFile = [exists |-> FALSE, lines |-> <<>>, nl |-> TRUE]
    /\ cpc = "idle"
    /\ cruns = 0
    /\ clog = <<>>
    /\ cres = "none"
    /\ rpc = "idle"
    /\ rlog = <<>>
    /\ rres = "none"
    /\ spc = "idle"
    /\ localDate = 0
    /\ remoteDate = 0
    /\ slog = <<>>
    /\ polls = 0

NextRace ==
    \/ \E c \in Callers : CallerSet(c)
        /\ UNCHANGED <<uvars, qvars, wvars, dvars, nvars, cvars, rvars, svars>>
    \/ \E c \in Callers : CallerQuery(c)
        /\ UNCHANGED <<uvars, qvars, wvars, dvars, nvars, cvars, rvars, svars>>

SpecRace == InitRace /\ [][NextRace]_vars

(***************************************************************************)
(* Scheduler.start: the poll loop                                          *)
(***************************************************************************)

\* Build dates are 1..MaxBuilds; 0 is datetime(1, 1, 1), the date
\* get_latest_local_image gives when the artifacts folder holds no build.
MaxBuilds == 3
\* get_latest_build calls in one behaviour.
MaxPolls == 4

BuildDates == 1..MaxBuilds

\* download_artifacts: True, False when a file could not be fetched, or an
\* exception of mkdir(exist_ok=False).
DownloadResults == {"true", "false", "raised"}

\* deploy_and_test: the value of run_tests, False when deploy returned
\* False, or an exception of deploy.
DeployResults == {"true", "false", "raised"}

\* `if not self.download_artifacts(...)` only logs: whatever is returned,
\* local_date is set and deploy_and_test is called; an exception ends start.
AfterDownload(r) == IF r = "raised" THEN "raised" ELSE "deploy"

\* `if latest_build_date > local_date`
IsNewer(remote, local) == remote > local

\* One turn of `while True` up to its branch: get_latest_build, which may
\* raise, and the comparison; the else branch sleeps and polls again.
Poll ==
    /\ spc = "poll"
    /\ polls < MaxPolls
    /\ polls' = polls + 1
    /\ \/ /\ spc' = "raised"
          /\ UNCHANGED remoteDate
       \/ \E d \in BuildDates :
            /\ remoteDate' = d
            /\ spc' = IF IsNewer(d, localDate) THEN "download" ELSE "poll"
    /\ UNCHANGED <<localDate, slog>>

\* download_artifacts, then `local_date = latest_build_date` and the call of
\* deploy_and_test
Download ==
    /\ spc = "download"
    /\ \E r \in DownloadResults :
        /\ spc' = AfterDownload(r)
        /\ IF AfterDownload(r) = "deploy"
           THEN /\ localDate' = remoteDate
                /\ slog' = Append(slog, [build |-> remoteDate, was |-> localDate,
                                         dl |-> r, res |-> "none"])
           ELSE UNCHANGED <<localDate, slog>>
    /\ UNCHANGED <<remoteDate, polls>>

\* deploy_and_test is over, its value dropped; its exception ends start
DeployAndTest ==
    /\ spc = "deploy"
    /\ \E r \in DeployResults :
        /\ slog' = [slog EXCEPT ![Len(slog)].res = r]
        /\ spc' = IF r = "raised" THEN "raised" ELSE "poll"
    /\ UNCHANGED <<localDate, remoteDate, polls>>

\* start has validated the configuration and read the date of the latest
\* local build folder, if any.
InitPoll ==
    /\ spc = "poll"
    /\ localDate \in 0..MaxBuilds
    /\ remoteDate = 0
    /\ slog = <<>>
    /\ polls = 0
    /\ imgExists = TRUE
    /\ imgIsFile = TRUE
    /\ upc = "idle"
    /\ nfsRunning = TRUE
    /\ loopAttached = FALSE
    /\ loopNameOk = FALSE
    /\ mounted = <<>>
    /\ dirRemoved = FALSE
    /\ copied = {}
    /\ pend = "none"
    /\ uresult = "none"
    /\ cmds = <<>>
    /\ poe = [q \in RouterPorts |-> "auto-on"]
    /\ nodes = <<>>
    /\ reqState = "off"
    /\ ppc = "idle"
    /\ idx = 0
    /\ ports = <<>>
    /\ presult = "none"
    /\ rcmds = <<>>
    /\ calls = 0
    /\ qin = [code |-> 0, out |-> <<>>]
    /\ qpc = "idle"
    /\ qret = [err |-> FALSE, ports |-> <<>>]
    /\ wkind = "hosts"
    /\ winput = <<>>
    /\ wtimeout = 1
    /\ whosts = <<>>
    /\ wpc = "idle"
    /\ wi = 0
    /\ wnow = 0
    /\ witer = 0
    /\ wstart = <<>>
    /\ wprobes = <<>>
    /\ seenAt = [h \in RouterPorts |-> -1]
    /\ seenPass = [h \in RouterPorts |-> -1]
    /\ wres = "none"
    /\ dpc = "idle"
    /\ dnodes = <<>>
    /\ dnext = 0
    /\ dprep = <<>>
    /\ doff = "none"
    /\ don = "none"
    /\ dwh = "none"
    /\ dwp = "none"
    /\ dres = "none"
    /\ nroot = <<"/", "p">>
    /\ nbatch = <<>>
    /\ ndirs = <<>>
    /\ sshdFile = [exists |-> FALSE, lines |-> <<>>, nl |-> TRUE]
    /\ fstabFile = [exists |-> FALSE, lines |-> <<>>, nl |-> TRUE]
    /\ cmdlineFile = [exists |-> FALSE, lines |-> <<>>, nl |-> TRUE]
    /\ hostnameFile = [exists |-> FALSE, lines |-> <<>>, nl |-> TRUE]
    /\ cpc = "idle"
    /\ cruns = 0
    /\ clog = <<>>
    /\ cres = "none"
    /\ rpc = "idle"
    /\ rlog = <<>>
    /\ rres = "none"
    /\ callers = <<>>
    /\ alone = <<>>

NextPoll ==
    \/ Poll
        /\ UNCHANGED <<uvars, pvars, qvars, wvars, dvars, nvars, cvars, rvars,
                       tvars>>
    \/ Download
        /\ UNCHANGED <<uvars, pvars, qvars, wvars, dvars, nvars, cvars, rvars,
                       tvars>>
    \/ DeployAndTest
        /\ UNCHANGED <<uvars, pvars, qvars, wvars, dvars, nvars, cvars, rvars,
                       tvars>>

SpecPoll == InitPoll /\ [][NextPoll]_vars

(***************************************************************************)
(* Properties of unpack_image (checked under SpecUnpack)                   *)
(***************************************************************************)

Issued(c, p)    == \E i \in 1..Len(cmds) : cmds[i].cmd = c /\ cmds[i].part = p
Succeeded(c, p) == \E i \in 1..Len(cmds) :
                       cmds[i].cmd = c /\ cmds[i].part = p /\ cmds[i].st = 0
Failed(c, p)    == \E i \in 1..Len(cmds) :
                       cmds[i].cmd = c /\ cmds[i].part = p /\ cmds[i].st # 0
Partitions      == 1..NumPartitions
SomeFailed(c)   == \E p \in 0..NumPartitions : Failed(c, p)

\* Every release command issued so far exited with status 0.
ReleasesOk ==
    \A i \in 1..Len(cmds) :
        cmds[i].cmd \in {"umount", "detach", "nfs_start"} => cmds[i].st = 0

\* For every resource the call acquired, its release command was issued.
ReleasesIssued ==
    /\ \A p \in Partitions : Succeeded("mount", p) => Issued("umount", p)
    /\ Succeeded("attach", 0) => Issued("detach", 0)
    /\ Succeeded("nfs_stop", 0) => Issued("nfs_start", 0)

\* C1 as stated: once unpack_image has returned or raised, whatever the
\* outcomes of its commands, no loop device is attached and no partition is
\* mounted.
C1_NothingLeftAlways ==
    upc = "done" => ~loopAttached /\ mounted = <<>>

\* C1 (amended): once unpack_image has returned or raised, an umount has been
\* issued for every partition it mounted and a `losetup -d` after every
\* attach that succeeded; when none of the umount and `losetup -d` commands
\* failed, no loop device is attached and no partition is mounted.
C1_ReleaseAttempted ==
    upc = "done" =>
        /\ \A p \in Partitions : Succeeded("mount", p) => Issued("umount", p)
        /\ Succeeded("attach", 0) => Issued("detach", 0)
        /\ (~SomeFailed("umount") /\ ~SomeFailed("detach"))
               => (~loopAttached /\ mounted = <<>>)

C1_Witness ==
    /\ upc = "done"
    /\ Succeeded("mount", 1) /\ Failed("mount", 2)
    /\ Succeeded("detach", 0)
    /\ ~loopAttached /\ mounted = <<>>

\* C2: when the NFS stop succeeded, an NFS start has been issued by the time
\* unpack_image returns or raises, on every exit path.
C2_NfsRestarted ==
    (upc = "done" /\ Succeeded("nfs_stop", 0)) => Issued("nfs_start", 0)

C2_Witness ==
    /\ upc = "done" /\ uresult = "raised"
    /\ Succeeded("nfs_stop", 0) /\ Failed("umount", 1)
    /\ Issued("nfs_start", 0)

\* Position of a command in the order of the `with` nesting.
Rank(e) ==
    CASE e.cmd = "nfs_stop"  -> 1
      [] e.cmd = "rm"        -> 2
      [] e.cmd = "attach"    -> 3
      [] e.cmd = "mount"     -> 1 + 3 * e.part
      [] e.cmd = "cp"        -> 2 + 3 * e.part
      [] e.cmd = "umount"    -> 3 + 3 * e.part
      [] e.cmd = "detach"    -> 4 + 3 * NumPartitions
      [] e.cmd = "nfs_start" -> 5 + 3 * NumPartitions

\* C3: the commands are issued in the order stop, rm, attach, mount 1, cp,
\* umount, mount 2, cp, umount, detach, start; `losetup -d` is issued only
\* after the umount of every partition this call mounted; partition 2 is
\* mounted only after partition 1 was unmounted, so at most one partition is
\* mounted at a time; NFS start is issued last, after the detach of an
\* attached device.
C3_Order ==
    /\ \A i, j \in 1..Len(cmds) : i < j => Rank(cmds[i]) < Rank(cmds[j])
    /\ \A i \in 1..Len(cmds) :
        cmds[i].cmd = "detach" =>
            \A p \in Partitions :
                Succeeded("mount", p) =>
                    \E k \in 1..(i - 1) :
                        cmds[k].cmd = "umount" /\ cmds[k].part = p
    /\ \A i \in 1..Len(cmds) :
        (cmds[i].cmd = "mount" /\ cmds[i].part > 1) =>
            \E k \in 1..(i - 1) :
                cmds[k] = Cmd("umount", cmds[i].part - 1, 0)
    /\ Len(mounted) <= 1
    /\ \A i \in 1..Len(cmds) :
        (cmds[i].cmd = "nfs_start" /\ Succeeded("attach", 0)) =>
            \E k \in 1..(i - 1) : cmds[k].cmd = "detach"

C3_Witness ==
    /\ upc = "done" /\ uresult = "false"
    /\ Len(cmds) = 5 + 3 * NumPartitions
    /\ Failed("cp", 2)

\* A step of unpack_image that needs the NFS service stopped is going on.
Working ==
    \/ upc \in {"rm", "cp1", "cp2"}
    \/ loopAttached
    \/ mounted # <<>>

\* C4 as stated: in every state in which the directory is being removed, a
\* loop device is attached, a partition is mounted or a copy is running, the
\* NFS service is stopped.
C4_StoppedWhileWorking == Working => ~nfsRunning

\* C4 (amended): the same, in every state before the NFS start command is
\* issued; a loop device or a mount that a failed umount or `losetup -d`
\* left behind is still there once the service has been started again.
C4_StoppedUntilStart ==
    (Working /\ ~Issued("nfs_start", 0)) => ~nfsRunning

C4_Witness ==
    /\ upc = "cp2" /\ loopAttached /\ mounted = <<2>> /\ ~nfsRunning

\* The service runs, nothing is attached, nothing is mounted.
Restored == nfsRunning /\ ~loopAttached /\ mounted = <<>>

\* C5 as stated: when a step after the NFS stop fails (rm, attach, mount,
\* copy), unpack_image returns False, it does not raise, and every resource
\* it had acquired is released or restored.
C5_FailureReturnsFalse ==
    (upc = "done" /\ (SomeFailed("rm") \/ SomeFailed("attach")
                      \/ SomeFailed("mount") \/ SomeFailed("cp")))
        => (uresult = "false" /\ Restored)

\* C5 (amended): a failed mount raises; a failed rm or copy returns False
\* when every release command then succeeds; in both cases, before the call
\* returns or raises, the release command of every resource it had acquired
\* has been issued, and when they all succeeded everything is restored.
C5_FailureUnwinds ==
    upc = "done" =>
        /\ SomeFailed("mount") => uresult = "raised"
        /\ ((SomeFailed("rm") \/ SomeFailed("cp")) /\ ReleasesOk)
               => uresult = "false"
        /\ (SomeFailed("rm") \/ SomeFailed("cp") \/ SomeFailed("mount"))
               => (ReleasesIssued /\ (ReleasesOk => Restored))

C5_Witness ==
    /\ upc = "done" /\ uresult = "false"
    /\ Failed("cp", 1) /\ Succeeded("umount", 1) /\ Restored

\* C6: with an image path that does not exist or is no regular file,
\* unpack_image raises at once and changes nothing: no command is issued,
\* the NFS service, the node's directory and the loop devices are as before.
C6_MissingImage ==
    [][(upc = "check" /\ (~imgExists \/ ~imgIsFile)) =>
          (/\ upc' = "done" /\ uresult' = "raised"
           /\ cmds' = <<>>
           /\ UNCHANGED <<nfsRunning, dirRemoved, loopAttached, mounted,
                          copied>>)]_vars

C6_Witness ==
    /\ upc = "done" /\ uresult = "raised"
    /\ imgExists /\ ~imgIsFile /\ cmds = <<>>

AllSucceeded == \A i \in 1..Len(cmds) : cmds[i].st = 0

\* C7 as stated: True only if every command succeeded; a failed attach,
\* mount, umount or detach always ends as a fatal error; a failed rm or copy
\* always yields False.
C7_FailureKinds ==
    upc = "done" =>
        /\ uresult = "true" => AllSucceeded
        /\ (SomeFailed("attach") \/ SomeFailed("mount")
            \/ SomeFailed("umount") \/ SomeFailed("detach"))
               => uresult = "raised"
        /\ (SomeFailed("rm") \/ SomeFailed("cp")) => uresult = "false"

\* C7 (amended): True only if every command succeeded; a failed attach,
\* mount, umount or detach always ends as a fatal error; a failed rm or copy
\* never yields True: it yields False when every release command issued
\* after it succeeds and a fatal error when one of them fails.
C7_FailureKindsUnlessReleaseFails ==
    upc = "done" =>
        /\ uresult = "true" => AllSucceeded
        /\ (SomeFailed("attach") \/ SomeFailed("mount")
            \/ SomeFailed("umount") \/ SomeFailed("detach"))
               => uresult = "raised"
        /\ (SomeFailed("rm") \/ SomeFailed("cp")) =>
               uresult = (IF ReleasesOk THEN "false" ELSE "raised")

C7_Witness ==
    /\ upc = "done" /\ uresult = "raised"
    /\ Failed("cp", 2) /\ Failed("detach", 0)

(***************************************************************************)
(* Properties of switch_comms_sleeves_power (checked under SpecPower)      *)
(***************************************************************************)

\* The query made after the set commands reports port `name` in state st.
Reported(name, st) ==
    \E i \in 1..Len(ports) : ports[i].name = name /\ ports[i].state = st

QueryIssued == \E i \in 1..Len(rcmds) : rcmds[i].cmd = "print"

SetRejected == \E i \in 1..Len(rcmds) :
                   rcmds[i].cmd = "set" /\ rcmds[i].code # 0

\* C8: a call over a non-empty node list that made its query and returned,
\* returned True iff that query reports every targeted port in the requested
\* state, and False when some targeted port is not reported in that state.
C8_TrueIffAllReported ==
    (ppc = "done" /\ nodes # <<>> /\ QueryIssued
                 /\ presult \in {"true", "false"}) =>
        /\ presult = "true" <=>
               \A n \in PortsNames(nodes) : Reported(n, reqState)
        /\ (\E n \in PortsNames(nodes) : ~Reported(n, reqState))
               => presult = "false"

\* C9: a rejected set command is the last command of the call: the call has
\* returned False, no later port was set, no query was made, and every
\* command issued was the set of the next node's port to the requested
\* state, so nothing was reverted.
C9_FailFast ==
    \A i \in 1..Len(rcmds) :
        (rcmds[i].cmd = "set" /\ rcmds[i].code # 0) =>
            /\ i = Len(rcmds)
            /\ ppc = "done" /\ presult = "false"
            /\ i <= Len(nodes)
            /\ \A k \in 1..i :
                /\ rcmds[k].cmd = "set"
                /\ rcmds[k].port = PortName(nodes[k])
                /\ rcmds[k].state = reqState

C9_Witness ==
    /\ ppc = "done" /\ presult = "false"
    /\ Len(nodes) = 2 /\ Len(rcmds) = 1
    /\ rcmds[1].cmd = "set" /\ rcmds[1].code # 0
    /\ poe[nodes[2]] # reqState

\* C10: when no set command is rejected, a call over N nodes issues N set
\* commands, one per node in list order, then exactly one print; a print is
\* never issued before the last set command, and the records verified are
\* the ones parsed from that print's output.
C10_SetsThenOneQuery ==
    /\ \A i \in 1..Len(rcmds) :
        rcmds[i].cmd = "print" =>
            (i = Len(rcmds) /\ i = Len(nodes) + 1 /\ ppc = "done")
    /\ (ppc = "done" /\ ~SetRejected) =>
        /\ Len(rcmds) = Len(nodes) + 1
        /\ \A k \in 1..Len(nodes) :
            rcmds[k] = RCmd("set", PortName(nodes[k]), reqState, 0, <<>>)
        /\ rcmds[Len(rcmds)].cmd = "print"
        /\ rcmds[Len(rcmds)].code = 0 =>
               /\ rcmds[Len(rcmds)].out \in
                      { PrintOutput(poe, sh) : sh \in [RouterPorts -> RowShapes] }
               /\ ports = ParsePoe(rcmds[Len(rcmds)].out).ports
        /\ rcmds[Len(rcmds)].code # 0 => ports = <<>>

C10_Witness ==
    /\ ppc = "done" /\ presult = "true"
    /\ Len(nodes) = 2 /\ Len(rcmds) = 3
    /\ rcmds[3].cmd = "print" /\ Len(ports) = 2
    /\ calls = 2

LastCmd == rcmds[Len(rcmds)]

\* The print command exited non-zero, or exited 0 with an output in which no
\* line is the row of a port.
QueryFailed ==
    /\ QueryIssued
    /\ \/ LastCmd.code # 0
       \/ SelectSeq(LastCmd.out, LAMBDA ln : Len(ln) = 8 /\ ln[1] # "#") = <<>>

\* C32: a call whose set commands all succeeded and whose print command
\* exited non-zero or gave no port record has returned False, never True.
C32_FailedQueryReturnsFalse ==
    (ppc = "done" /\ ~SetRejected /\ QueryFailed) => presult = "false"

C32_Witness ==
    /\ ppc = "done" /\ presult = "false"
    /\ Len(nodes) = 2 /\ Len(rcmds) = 3 /\ ~SetRejected
    /\ LastCmd.cmd = "print" /\ LastCmd.code # 0
    /\ \A i \in 1..Len(nodes) : poe[nodes[i]] = reqState

\* C30: a release or a dependent acquire is issued only for a resource that
\* was acquired: a mount or a detach only after an attach that exited 0, the
\* umount of a partition only after a mount of it that exited 0, the start
\* of the NFS service only after a stop that exited 0.
C30_OnlyAfterAcquired ==
    /\ ((\E p \in Partitions : Issued("mount", p)) \/ Issued("detach", 0))
           => Succeeded("attach", 0)
    /\ \A p \in Partitions : Issued("umount", p) => Succeeded("mount", p)
    /\ Issued("nfs_start", 0) => Succeeded("nfs_stop", 0)

(***************************************************************************)
(* Properties of get_poe_ports (checked under SpecParse)                   *)
(***************************************************************************)

\* C11: when the print command exits non-zero, get_poe_ports fails with an
\* error, which no successful query gives back.
C11_NonZeroExitIsError ==
    (qpc = "done" /\ qin.code # 0) =>
        /\ qret.err
        /\ \A a \in Answers : qret # GetPoePorts(0, a)

\* A line that yields a record: not blank, without the marker ';;;', not
\* starting with '#' or 'Columns', of exactly 8 tokens.
RecordLine(ln) ==
    /\ Len(ln) = 8
    /\ ~ \E i \in 1..Len(ln) : ln[i] = ";;;"
    /\ ln[1] # "#" /\ ln[1] # "Columns:"

\* A value of the line is outside the vocabulary of its column.
BadValue(ln) ==
    \/ ln[3] \notin {"off", "auto-on", "forced-on"}
    \/ ln[4] \notin {"auto", "low", "high"}
    \/ ln[5] \notin {"10", "20"}
    \/ ln[6] \notin {"yes", "no"} \/ ln[7] \notin {"yes", "no"}

\* C12: the records returned are those of the record lines, one per line in
\* order, with name = token[1], state = token[2], voltage = token[3]; a line
\* of any other shape is skipped and never causes an error: an error comes
\* from a value of a record line only.
C12_RecordPerRow ==
    (qpc = "done" /\ qin.code = 0) =>
        LET rows == SelectSeq(qin.out, RecordLine) IN
        /\ ~qret.err =>
            /\ Len(qret.ports) = Len(rows)
            /\ \A i \in 1..Len(rows) :
                /\ qret.ports[i].name = rows[i][2]
                /\ qret.ports[i].state = rows[i][3]
                /\ qret.ports[i].voltage = rows[i][4]
        /\ qret.err <=> \E i \in 1..Len(rows) : BadValue(rows[i])

C12_Witness ==
    /\ qpc = "done" /\ qin.code = 0
    /\ qin.out = <<ColumnsLine, HighRow>>
    /\ qret.ports = <<[name |-> "ether2", state |-> "forced-on",
                       voltage |-> "high"]>>

\* C13: an 8-token row whose state is none of off, auto-on, forced-on makes
\* the query fail: no record list is returned, so the row is neither skipped
\* nor reported with a default state.
C13_UnknownStateFails ==
    (qpc = "done" /\ qin.code = 0
       /\ \E i \in 1..Len(qin.out) :
             /\ RecordLine(qin.out[i])
             /\ qin.out[i][3] \notin {"off", "auto-on", "forced-on"})
        => (qret.err /\ qret.ports = <<>>)

C13_Witness ==
    /\ qpc = "done" /\ qin.code = 0
    /\ qin.out = <<HighRow, RowOf(2, "off", "unknown")>>
    /\ qret.err /\ qret.ports = <<>>

(***************************************************************************)
(* Properties of the wait loops (checked under SpecWait)                   *)
(***************************************************************************)

Times(h, q) == Cardinality({ i \in 1..Len(q) : q[i] = h })
Answered(h) == seenAt[h] # -1
Returned    == wpc = "done" /\ wres \in {"true", "false"}

C19_PendingOnlyShrinks ==
    [][ /\ Range(whosts') \subseteq Range(whosts)
        /\ Len(whosts') >= Len(whosts) - 1
        /\ whosts' # whosts =>
              /\ wprobes' = Append(wprobes, wprobes'[Len(wprobes')])
              /\ LET h == wprobes'[Len(wprobes')] IN
                    /\ Range(whosts) \ Range(whosts') = {h}
                    /\ ~Answered(h) /\ seenAt'[h] # -1
        /\ (Len(wprobes') = Len(wprobes) + 1) =>
              /\ wprobes'[Len(wprobes')] \in Range(whosts)
              /\ ~Answered(wprobes'[Len(wprobes')])
      ]_vars

C19_Witness ==
    /\ Returned /\ wres = "true"
    /\ Len(winput) = 2 /\ whosts = <<>>
    /\ seenAt[winput[1]] > seenAt[winput[2]]

\* C20: when a pass of the loop is over, every host that was pending when
\* the pass began has been probed exactly once in it.
C20_EveryPendingProbedOnce ==
    (wpc \in {"while", "done"} /\ wres # "raise") =>
        \A h \in Range(wstart) : Times(h, wprobes) = 1

\* C21: a call given an empty host list and a positive timeout ends with
\* result True, having sent no probe and raised no error.
C21_EmptyListTrue ==
    (winput = <<>> /\ wpc = "done") => (wres = "true" /\ wprobes = <<>>)

\* C34: under SpecWaitFair a call given a non-empty host list eventually
\* returns True or False, whatever the probes answer and however fast.
C34_Terminates ==
    (winput # <<>>) => <>(wpc = "done" /\ wres \in {"true", "false"})

\* wait_for_hosts has returned False after passes in which every probe
\* failed at once, no host ever answering
C34_Witness ==
    /\ wpc = "done" /\ wres = "false" /\ wkind = "hosts"
    /\ Len(winput) = 2 /\ whosts = winput
    /\ \A h \in Hosts : seenAt[h] = -1
    /\ wnow = wtimeout /\ wnow = witer + 1

(***************************************************************************)
(* Properties of deploy (checked under SpecDeploy)                         *)
(***************************************************************************)

\* The last query of the running or finished power call reports every node
\* of the batch in state st.
BatchReported(st) == \A i \in 1..Len(dnodes) : Reported(PortName(dnodes[i]), st)

SetIssued   == \E i \in 1..Len(rcmds) : rcmds[i].cmd = "set"
ProbeSent   == wprobes # <<>>
Finished    == dpc = "done"

\* C14: the phases come in the order power-off, preparation, power-on, boot
\* wait: a node is prepared only after the power-off query has reported
\* every node of the batch off, a power-on command is issued only after the
\* preparation of every node has been attempted, and a probe is sent only
\* after the power-on query has reported every node of the batch on.
C14_PhaseOrder ==
    /\ (dpc = "prep" /\ dprep # <<>>) => BatchReported(PowerOff)
    /\ (dpc = "on" /\ SetIssued) => Len(dprep) = Len(dnodes)
    /\ (dpc \in {"hosts", "ports"} /\ ProbeSent) => BatchReported(PowerOn)

\* C15: when switch_comms_sleeves_power(nodes, Off) returns False, deploy
\* returns False and has done nothing else: no node prepared, no second
\* power call and so no power-on command, no wait entered and no probe sent.
\* (When that call ends with an exception deploy ends with it, having done
\* nothing else either.)
C15_OffFailureStops ==
    (doff \in {"false", "raised"}) =>
        /\ Finished
        /\ doff = "false" => dres = "false"
        /\ doff = "raised" => dres = "raised"
        /\ dprep = <<>>
        /\ calls = 1 /\ reqState = PowerOff /\ don = "none"
        /\ wpc = "idle" /\ ~ProbeSent /\ dwh = "none" /\ dwp = "none"

C15_Witness ==
    /\ Finished /\ doff = "false" /\ dres = "false"
    /\ Len(dnodes) = 2 /\ Len(rcmds) = 3
    /\ rcmds[3].cmd = "print"

\* C16: once the power-off call has returned True, deploy attempts the
\* preparation of every node of the batch, whatever the preparations before
\* ended with, and then makes the power-on call.
C16_EveryNodeAttempted ==
    (doff = "true" /\ dpc \in {"on", "hosts", "ports", "done"}) =>
        /\ Len(dprep) = Len(dnodes)
        /\ calls = 2 /\ reqState = PowerOn

\* C17: deploy returns True iff both power calls returned True and both
\* waits returned; with both power calls True and both waits returned its
\* value does not depend on what the waits returned, and the preparations'
\* results (False each) have no part in it.
C17_TrueIffPowerAndWaits ==
    Finished =>
        /\ dres = "true" <=>
              /\ doff = "true" /\ don = "true"
              /\ dwh \in {"true", "false"} /\ dwp \in {"true", "false"}
        /\ dres = "true" =>
              /\ Len(dprep) = Len(dnodes)
              /\ \A i \in 1..Len(dprep) : dprep[i] = "false"

C17_Witness ==
    /\ Finished /\ dres = "true"
    /\ Len(dnodes) = 2
    /\ dwh = "false" /\ dwp = "true"

\* The hosts of the list passed in that no probe of the call found reachable.
NeverSeen == SelectSeq(winput, LAMBDA h : seenAt[h] = -1)

\* C35: a wait function that has ended has left in its list exactly the
\* hosts it never saw reachable; when wait_for_hosts has returned, with True
\* or with False, the next step of deploy calls wait_for_ports with a list of
\* all the nodes' addresses.
C35_FreshListPerPhase ==
    [][ /\ wpc' = "done" => whosts' = NeverSeen'
        /\ (dpc = "hosts" /\ wpc = "done" /\ wres # "raise") =>
              /\ dpc' = "ports" /\ wkind' = "ports"
              /\ winput' = dnodes /\ whosts' = dnodes
              /\ wpc' = "while" /\ wprobes' = <<>> ]_vars

\* wait_for_hosts saw both nodes and emptied its list; wait_for_ports is
\* entered with both
C35_Witness ==
    /\ dpc = "ports" /\ dwh = "true" /\ Len(dnodes) = 2
    /\ wpc = "while" /\ wprobes = <<>> /\ whosts = dnodes

(***************************************************************************)
(* Properties of the derived directories (checked under SpecDirs)          *)
(***************************************************************************)

Derived     == Len(ndirs) = Len(nbatch)
DistinctBy(Key(_)) ==
    \A i, j \in 1..Len(nbatch) : i # j => Key(nbatch[i]) # Key(nbatch[j])
MacOf(node) == node.mac
DirsApart ==
    \A i, j \in 1..Len(ndirs) : i # j =>
        /\ ndirs[i].boot # ndirs[j].boot
        /\ ndirs[i].rootfs # ndirs[j].rootfs
        /\ ndirs[i].csl_root # ndirs[j].csl_root
DirsDetermined ==
    \A i \in 1..Len(ndirs) : ndirs[i] = DirsOf(nroot, nbatch[i])

\* C27 as stated: the directories of a node are a function of the filesystem
\* root, its MAC and its override, and in a batch of pairwise distinct MAC
\* addresses the boot and root directories (and the tree unpack_image
\* removes) of two different nodes are distinct.
C27_DistinctMacsDistinctDirs ==
    (Derived /\ DistinctBy(MacOf)) => (DirsDetermined /\ DirsApart)

\* C27, amended: the same, for a batch whose nodes have pairwise distinct
\* directory names, the override where it is set and the colon-stripped MAC
\* otherwise; distinct MAC addresses alone do not give distinct directories.
C27_DistinctNamesDistinctDirs ==
    (Derived /\ DistinctBy(NfsDirName)) => (DirsDetermined /\ DirsApart)

C27_Witness ==
    /\ Derived /\ Len(nbatch) = 2
    /\ DistinctBy(NfsDirName)
    /\ nbatch[1].nfs = <<"x">> /\ nbatch[2].nfs = <<>>
    /\ ndirs[1].boot = nroot \o <<"/", "x", "/", "b", "o", "o", "t">>
    /\ ndirs[2].rootfs =
           nroot \o <<"/", "a", "a", "b", "b", "/", "r", "o", "o", "t", "f", "s">>

(***************************************************************************)
(* Properties of the file rewrites (checked under SpecConfigure)           *)
(***************************************************************************)

\* The second whitespace-delimited field of the line is exactly '/'.
RootLine(line) == Len(Split(line)) >= 2 /\ Split(line)[2] = <<"/">>
HasRootLine(file) == \E i \in 1..Len(file.lines) : RootLine(file.lines[i])

Keys == { PermitRootLogin, PasswordAuthentication, HostRsaKey }
Canonical(key) ==
    CASE key = PermitRootLogin        -> PermitRootLogin \o <<" ", "yes">>
      [] key = PasswordAuthentication -> PasswordAuthentication \o <<" ", "yes">>
      [] key = HostRsaKey             -> <<"HostKey", " ">> \o HostRsaKey
\* The key is a run of consecutive characters of the line.
Occurs(key, line) ==
    \E i, j \in 1..Len(line) : SubSeq(line, i, j) = key
KeysIn(line) == { k \in Keys : Occurs(k, line) }

Ran(op) == { i \in 1..Len(clog) : clog[i].op = op /\ clog[i].before.exists }

\* C22: on an fstab with a root line modify_fstab_file returns True and the
\* file then holds the same lines in the same places, but for the (first)
\* root line, in whose place stands
\* '{serverIp}:{bootDir} /boot nfs defaults,vers=4.1,tcp 0 0'.
C22_RootLineReplaced ==
    \A k \in Ran("fstab") :
        LET old == clog[k].before.lines
            new == clog[k].after.lines
        IN  HasRootLine(clog[k].before) =>
              /\ clog[k].ret = "true"
              /\ Len(new) = Len(old)
              /\ \E i \in 1..Len(old) :
                    /\ RootLine(old[i])
                    /\ \A j \in 1..(i - 1) : ~RootLine(old[j])
                    /\ new[i] = NfsBootLine(ServerIp, BootDirArg)
                    /\ \A j \in 1..Len(old) : j # i => new[j] = old[j]

C22_Witness ==
    \E k \in Ran("fstab") :
        /\ clog[k].before.lines = << <<"d", " ", "/", "b", " ", "v">>,
                                     <<" ", "d", " ", " ", "/">> >>
        /\ clog[k].after.lines = << <<"d", " ", "/", "b", " ", "v">>,
                                    NfsBootLine(ServerIp, BootDirArg) >>
        /\ clog[k].ret = "true"

\* C23: on an fstab without a root line modify_fstab_file returns False and
\* the file is what it was, to the missing newline at its end.
C23_NoRootLineNoWrite ==
    \A k \in Ran("fstab") :
        ~HasRootLine(clog[k].before) =>
            /\ clog[k].ret = "false"
            /\ clog[k].after = clog[k].before

C23_Witness ==
    \E k \in Ran("fstab") :
        /\ clog[k].before.lines = << <<"d", " ", "/", "b", " ", "v">>, <<"/">> >>
        /\ ~clog[k].before.nl
        /\ clog[k].ret = "false"
        /\ fstabFile = clog[k].before

\* C24: modify_sshd_config keeps the number of lines; a line containing
\* none of the three substrings is written back as it was, in its place; a
\* line containing one of them is replaced by that substring's canonical
\* line (by the canonical line of one it contains, when it contains more).
C24_SshdLinesRewritten ==
    \A k \in Ran("sshd") :
        LET old == clog[k].before.lines
            new == clog[k].after.lines
        IN  /\ Len(new) = Len(old)
            /\ \A i \in 1..Len(old) :
                  IF KeysIn(old[i]) = {}
                  THEN new[i] = old[i]
                  ELSE new[i] \in { Canonical(key) : key \in KeysIn(old[i]) }

C24_Witness ==
    \E k \in Ran("sshd") :
        /\ clog[k].before.lines =
               << <<"#">> \o PermitRootLogin \o <<" ", "no">>,
                  <<"Permit", " ", "RootLogin">> >>
        /\ clog[k].after.lines =
               << PermitRootLogin \o <<" ", "yes">>,
                  <<"Permit", " ", "RootLogin">> >>
        /\ clog[k].ret = "true"

\* C25: each sub-operation is idempotent: applied a second time, with the
\* same arguments, to the file its first application left, it leaves that
\* file as it is.
C25_Idempotent ==
    \A k, m \in 1..Len(clog) :
        (/\ clog[k].op = clog[m].op
         /\ clog[m].run = clog[k].run + 1
         /\ clog[k].ret # "raised" /\ clog[m].ret # "raised")
            => clog[m].after = clog[k].after

\* C26: a call of configure_csl_filesystem that is over has attempted the
\* four sub-operations once each, in the order sshd, fstab, cmdline,
\* hostname, whatever any of them came to.
C26_AllFourAttempted ==
    cpc = "done" =>
        LET mine == SelectSeq(clog, LAMBDA en : en.run = cruns) IN
        /\ Len(mine) = 4
        /\ mine[1].op = "sshd" /\ mine[2].op = "fstab"
        /\ mine[3].op = "cmdline" /\ mine[4].op = "hostname"

(***************************************************************************)
(* Properties of prepare_pxe_boot_configuration (checked under SpecPrepare) *)
(***************************************************************************)

Entered(step)  == \E i \in 1..Len(rlog) : rlog[i] = step
SymlinkIssued  == \E i \in 1..Len(cmds) : cmds[i].cmd = "ln"
SymlinkMade    == \E i \in 1..Len(cmds) : cmds[i].cmd = "ln" /\ cmds[i].st = 0
PrepareOver    == rpc = "done"

\* C28: whenever prepare_pxe_boot_configuration returns it returns False,
\* also when unpack_image returned True, configure_csl_filesystem returned
\* and the symlink was made.
C28_AlwaysFalse ==
    (PrepareOver /\ rres # "raised") => rres = "false"

C28_Witness ==
    /\ PrepareOver /\ rres = "false"
    /\ uresult = "true" /\ cres = "returned" /\ SymlinkMade
    /\ Len(clog) = 4 /\ clog[1].ret = "true" /\ clog[2].ret = "true"

\* C29: the steps come in the order unpack, configure, symlink, and
\* configure and the symlink are attempted iff unpack_image returned True:
\* after an unpack that did not, no file is rewritten and no symlink made.
C29_ConfigureAndSymlinkIffUnpacked ==
    PrepareOver =>
        /\ \E n \in 1..3 : rlog = SubSeq(<<"unpack", "configure", "symlink">>, 1, n)
        /\ uresult = "true" <=> (Entered("configure") /\ clog # <<>>)
        /\ uresult = "true" <=> (Entered("symlink") /\ SymlinkIssued)

(***************************************************************************)
(* Properties of the prepared batch (checked under SpecBatch)              *)
(***************************************************************************)

NfsCmdAt(i)      == cmds[i].cmd \in {"nfs_stop", "nfs_start"}
PowerOnIssued    ==
    reqState = PowerOn /\ \E i \in 1..Len(rcmds) : rcmds[i].cmd = "set"
StopsAllRestarted ==
    \A i \in 1..Len(cmds) :
        cmds[i].cmd = "nfs_stop" =>
            \E j \in (i + 1)..Len(cmds) :
                cmds[j].cmd = "nfs_start" /\ cmds[j].st = 0

\* C31: once a power-on command has been issued the NFS service is running,
\* every NFS stop of the batch's preparation was followed by a successful
\* NFS start, and no NFS stop or start of it failed.
C31_PowerOnOnlyWithNfs ==
    PowerOnIssued =>
        /\ nfsRunning
        /\ StopsAllRestarted
        /\ \A i \in 1..Len(cmds) : NfsCmdAt(i) => cmds[i].st = 0

C31_Witness ==
    /\ PowerOnIssued
    /\ Len(dnodes) = 2
    /\ Len(SelectSeq(cmds, LAMBDA c : c.cmd = "nfs_stop")) = 2
    /\ dprep = <<"false", "false">>

(***************************************************************************)
(* Properties of two interleaved power calls (checked under SpecRace)      *)
(***************************************************************************)

Targets(c)  == { callers[c].nodes[i] : i \in 1..Len(callers[c].nodes) }
Disjoint    == Targets(1) \cap Targets(2) = {}
Returned2(c) == callers[c].pc = "done"

\* C33: of two interleaved calls on disjoint port sets, each ends as it ends
\* on the router that only its own commands have reached.
C33_DisjointCallsIndependent ==
    Disjoint => \A c \in Callers :
                    Returned2(c) => callers[c].res = callers[c].ares

\* both calls on disjoint non-empty sets, different states asked for, the
\* first caller's query made after the other caller's set was applied
C33_Witness ==
    /\ Disjoint /\ Targets(1) # {} /\ Targets(2) # {}
    /\ callers[1].state # callers[2].state
    /\ Returned2(1) /\ Returned2(2)
    /\ callers[1].res = "true" /\ callers[2].res = "true"
    /\ alone[1] # poe /\ alone[2] # poe

\* with overlapping sets a caller's verification sees the other caller's
\* state: its call ends otherwise than alone
OverlapRace ==
    /\ ~Disjoint
    /\ \E c \in Callers : Returned2(c) /\ callers[c].res # callers[c].ares

(***************************************************************************)
(* The served tree and the NFS service (checked under SpecPrepare)         *)
(***************************************************************************)

\* The step issues a command that exits 0 and changes the node's tree or
\* its TFTP link.
TreeCommand ==
    /\ Len(cmds') = Len(cmds) + 1
    /\ cmds'[Len(cmds')].cmd \in {"rm", "cp", "ln"}
    /\ cmds'[Len(cmds')].st = 0

\* The step rewrites one of the four configuration files.
FileRewritten ==
    /\ Len(clog') = Len(clog) + 1
    /\ clog'[Len(clog')].before # clog'[Len(clog')].after

\* C36: every step that changes the node's tree (the removal of the old
\* directory, a partition copy, a rewrite of fstab, sshd_config, cmdline.txt
\* or hostname, the TFTP symlink) is taken while the NFS service is stopped.
C36_TreeChangedOnlyWhileStopped ==
    [][ (TreeCommand \/ FileRewritten) => ~nfsRunning ]_vars

(***************************************************************************)
(* Properties of the Scheduler poll loop (checked under SpecPoll)          *)
(***************************************************************************)

DeployStarted == Len(slog') = Len(slog) + 1

\* C37: the local build date never decreases; a deployment is started only
\* for a remote build strictly newer than it, for a build no earlier
\* deployment was started for (whatever that one's result), and only after
\* download_artifacts returned True for that build.
C37_OncePerDownloadedBuild ==
    [][ /\ localDate' >= localDate
        /\ DeployStarted =>
              /\ remoteDate > localDate
              /\ slog'[Len(slog')].build = remoteDate
              /\ \A i \in 1..Len(slog) : slog[i].build # remoteDate
              /\ slog'[Len(slog')].dl = "true" ]_vars

=============================================================================
